---------------------------- MODULE Spec2Model ----------------------------
(***************************************************************************)
(* Agent tool resolution and execution (execute / resolveProperties /     *)
(* matchDropdownValue) and the agent output builder (agentOutputBuilder). *)
(*                                                                         *)
(* Three specifications share the variables of this module:               *)
(*   Spec            one run of execute(), with resolveProperties inlined *)
(*   SpecTranscript  any sequence of calls on one agentOutputBuilder      *)
(*   SpecMatch       matchDropdownValue applied to bounded inputs         *)
(***************************************************************************)
EXTENDS Integers, Sequences, FiniteSets, TLC

VARIABLES
    \* ---- matchDropdownValue (SpecMatch)
    mExtracted,     \* the extractedValue argument
    mOptions,       \* the options argument
    mResult,        \* the returned value
    mDone,          \* the call has returned
    \* ---- agentOutputBuilder (SpecTranscript)
    status,         \* let status
    steps,          \* const steps
    structuredOutput, \* let structuredOutput
    clock,          \* the value new Date() reads
    lastCall,       \* the last builder call and whether it threw
    calls,          \* builder calls and clock ticks so far
    built,          \* the value build() returned last, as its holder sees it
    unfinished,     \* per id, the startToolCall calls no finish or fail has followed yet
    \* ---- execute (Spec)
    operation,      \* the ExecuteToolOperation: action, predefinedInput
    pc,             \* where execute is
    depthToPropertyMap, \* what tsort.sortPropertiesByDependencies returned
    result,         \* let result of resolveProperties: the accumulator
    levelIdx,       \* position of the level loop in depthToPropertyMap
    propIdx,        \* position of the property loop in the level
    propertyToFill, \* property name -> schema, of the level
    propertyDetails, \* the PropertyDetail list of the level
    log,            \* external calls and merges so far, in order
    modelFailure,   \* the last rejection of generateText and what became of it
    runtimeInput,   \* step.settings.input as handed to the action runtime
    thrown,         \* the error the try block of execute threw
    response,       \* the ExecuteToolResponse execute returned
    runtimeOutput,  \* output.steps[operation.actionName] of the action runtime
    \* ---- propertyToSchema (SpecSchema)
    sProperty,      \* the property argument
    sLoaded,        \* what loadOptions answers for it
    sSchema,        \* the schema returned
    sThrew,         \* the call threw
    sDone,          \* the call is over
    \* ---- tsort.sortPropertiesByDependencies (SpecSort)
    tProps,         \* the props argument
    tMap,           \* the level map returned
    tThrew,         \* the call threw
    tDone,          \* the call is over
    \* ---- buildDynamicSchema and tryBuildSchemaFromDefault (SpecDynamic)
    dProperty,      \* the property argument of propertyToSchema
    dOptions,       \* response.options of pieceHelper.executeProps
    dSchema,        \* the schema returned
    dThrew,         \* the call threw
    dDone,          \* the call is over
    \* ---- pieceSyncService (SpecSync)
    syncMode,       \* const syncMode
    syncRuns,       \* the sync() calls: where each is, its requests, its refreshes
    \* ---- managedAuthnController (SpecAuthn)
    authn,          \* the POST /external-token request and how far it got
    \* ---- deletePiecesIfNotOnCloud (SpecDelete)
    purge           \* the tables a sync() call compares and what it deleted

vars == <<mExtracted, mOptions, mResult, mDone,
          status, steps, structuredOutput, clock, lastCall, calls, built, unfinished,
          operation, pc, depthToPropertyMap, result, levelIdx, propIdx,
          propertyToFill, propertyDetails, log, modelFailure, runtimeInput,
          thrown, response, runtimeOutput,
          sProperty, sLoaded, sSchema, sThrew, sDone,
          tProps, tMap, tThrew, tDone,
          dProperty, dOptions, dSchema, dThrew, dDone,
          syncMode, syncRuns, authn, purge>>

matchVars == <<mExtracted, mOptions, mResult, mDone>>
schemaVars == <<sProperty, sLoaded, sSchema, sThrew, sDone>>
sortVars == <<tProps, tMap, tThrew, tDone>>
dynamicVars == <<dProperty, dOptions, dSchema, dThrew, dDone>>
apiVars == <<authn, purge>>
syncVars == <<syncMode, syncRuns, authn, purge>>
transcriptVars == <<status, steps, structuredOutput, clock, lastCall, calls, built,
                    unfinished>>
executeVars == <<operation, pc, depthToPropertyMap, result, levelIdx, propIdx,
                 propertyToFill, propertyDetails, log, modelFailure, runtimeInput,
                 thrown, response, runtimeOutput>>

(***************************************************************************)
(* JavaScript values.  Every value is a record of the same four fields so *)
(* that any two values can be compared: t is the typeof/JSON kind, s the  *)
(* characters of a string, n a number, o the entries of an object in      *)
(* insertion order, each a pair <<key, primitive value>>.                  *)
(***************************************************************************)
JStr(chars) == [t |-> "str", s |-> chars, n |-> 0, o |-> <<>>]
JNum(k) == [t |-> "num", s |-> <<>>, n |-> k, o |-> <<>>]
JObj(entries) == [t |-> "obj", s |-> <<>>, n |-> 0, o |-> entries]
JNull == [t |-> "null", s |-> <<>>, n |-> 0, o |-> <<>>]
JUndefined == [t |-> "undef", s |-> <<>>, n |-> 0, o |-> <<>>]
JBool(b) == [t |-> "bool", s |-> <<>>, n |-> IF b THEN 1 ELSE 0, o |-> <<>>]

\* an object as a mapping from its keys, and the empty one
EmptyObject == [k \in {} |-> JUndefined]

\* { ...a, ...b }
Spread(a, b) ==
    [k \in (DOMAIN a) \cup (DOMAIN b) |-> IF k \in DOMAIN b THEN b[k] ELSE a[k]]

\* Object.keys(v), in insertion order
ObjectKeys(v) == [i \in 1..Len(v.o) |-> v.o[i][1]]

\* k in v
HasKey(v, k) == \E i \in 1..Len(v.o) : v.o[i][1] = k

\* v[k], undefined when the key is absent
Get(v, k) ==
    IF HasKey(v, k)
    THEN LET i == CHOOSE j \in 1..Len(v.o) : v.o[j][1] = k IN v.o[i][2]
    ELSE JUndefined

\* a === b on the values of object entries: primitives by type and value,
\* objects by identity (two distinct objects are never ===)
StrictEquals(a, b) ==
    /\ a.t = b.t
    /\ a.t # "obj"
    /\ a.s = b.s
    /\ a.n = b.n

\* String.prototype.toLowerCase, on ASCII letters
LowerChar(c) ==
    CASE c = "A" -> "a"
      [] c = "B" -> "b"
      [] c = "C" -> "c"
      [] c = "D" -> "d"
      [] c = "E" -> "e"
      [] c = "F" -> "f"
      [] c = "G" -> "g"
      [] c = "H" -> "h"
      [] c = "I" -> "i"
      [] c = "J" -> "j"
      [] c = "K" -> "k"
      [] c = "L" -> "l"
      [] c = "M" -> "m"
      [] c = "N" -> "n"
      [] c = "O" -> "o"
      [] c = "P" -> "p"
      [] c = "Q" -> "q"
      [] c = "R" -> "r"
      [] c = "S" -> "s"
      [] c = "T" -> "t"
      [] c = "U" -> "u"
      [] c = "V" -> "v"
      [] c = "W" -> "w"
      [] c = "X" -> "x"
      [] c = "Y" -> "y"
      [] c = "Z" -> "z"
      [] OTHER -> c

toLowerCase(str) == [i \in 1..Len(str) |-> LowerChar(str[i])]

\* String.prototype.includes
includes(hay, needle) ==
    \E i \in 0..(Len(hay) - Len(needle)) :
        SubSeq(hay, i + 1, i + Len(needle)) = needle

\* the decimal text of a number 0..9
DigitChar(k) ==
    CASE k = 0 -> "0" [] k = 1 -> "1" [] k = 2 -> "2" [] k = 3 -> "3"
      [] k = 4 -> "4" [] k = 5 -> "5" [] k = 6 -> "6" [] k = 7 -> "7"
      [] k = 8 -> "8" [] OTHER -> "9"

\* a JavaScript array: its entries under their indices
JArr(items) ==
    [t |-> "arr", s |-> <<>>, n |-> 0,
     o |-> [i \in 1..Len(items) |-> <<DigitChar(i - 1), items[i]>>]]

\* JSON.stringify of a primitive
StringifyPrim(v) ==
    CASE v.t = "str" -> <<"\"">> \o v.s \o <<"\"">>
      [] v.t = "num" -> <<DigitChar(v.n)>>
      [] v.t = "bool" -> IF v.n = 1 THEN <<"t", "r", "u", "e">>
                         ELSE <<"f", "a", "l", "s", "e">>
      [] OTHER -> <<"n", "u", "l", "l">>

RECURSIVE StringifyEntries(_)
StringifyEntries(entries) ==
    IF entries = <<>> THEN <<>>
    ELSE LET e == Head(entries)
             one == <<"\"", e[1], "\"", ":">> \o StringifyPrim(e[2])
         IN IF Len(entries) = 1 THEN one
            ELSE one \o <<",">> \o StringifyEntries(Tail(entries))

\* the items of an array, each a primitive or an object of primitives
RECURSIVE StringifyItems(_)
StringifyItems(entries) ==
    IF entries = <<>> THEN <<>>
    ELSE LET v == Head(entries)[2]
             one == IF v.t = "obj" THEN <<"{">> \o StringifyEntries(v.o) \o <<"}">>
                    ELSE StringifyPrim(v)
         IN IF Len(entries) = 1 THEN one
            ELSE one \o <<",">> \o StringifyItems(Tail(entries))

\* JSON.stringify: the entries of an object are written in insertion order
JSONstringify(v) ==
    IF v.t = "obj" THEN <<"{">> \o StringifyEntries(v.o) \o <<"}">>
    ELSE IF v.t = "arr" THEN <<"[">> \o StringifyItems(v.o) \o <<"]">>
    ELSE StringifyPrim(v)


(***************************************************************************)
(* matchDropdownValue.  An option is [label |-> chars, value |-> value].  *)
(***************************************************************************)
\* Array.prototype.find as the index of the first element satisfying P,
\* 0 when there is none
FindIndex(arr, P(_)) ==
    IF \E i \in 1..Len(arr) : P(arr[i])
    THEN CHOOSE i \in 1..Len(arr) :
            P(arr[i]) /\ \A j \in 1..(i - 1) : ~P(arr[j])
    ELSE 0

\* typeof extractedValue === 'string' ? extractedValue : JSON.stringify(extractedValue)
ExtractedStr(extractedValue) ==
    IF extractedValue.t = "str" THEN extractedValue.s
    ELSE JSONstringify(extractedValue)

\* Object.keys(extractedObj).find(k => k in optionObj && extractedObj[k] === optionObj[k])
HasSharedKey(extractedObj, optionObj) ==
    \E i \in 1..Len(extractedObj.o) :
        LET k == extractedObj.o[i][1] IN
        /\ HasKey(optionObj, k)
        /\ StrictEquals(extractedObj.o[i][2], Get(optionObj, k))

\* the comparison of the first rung: the two JSON texts are equal
ExactMatch(optionValue, extractedValue) ==
    JSONstringify(optionValue) = JSONstringify(extractedValue)

matchDropdownValue(extractedValue, options) ==
    IF Len(options) = 0 THEN extractedValue
    ELSE
    LET exact == FindIndex(options, LAMBDA o : ExactMatch(o.value, extractedValue))
        extractedStr == ExtractedStr(extractedValue)
        byLabel == FindIndex(options,
            LAMBDA o : toLowerCase(o.label) = toLowerCase(extractedStr))
        byLabelContains == FindIndex(options,
            LAMBDA o : includes(toLowerCase(extractedStr), toLowerCase(o.label)))
        byKey == IF extractedValue.t \in {"obj", "arr"}
                 THEN FindIndex(options,
                        LAMBDA o : o.value.t \in {"obj", "arr"}
                                   /\ HasSharedKey(extractedValue, o.value))
                 ELSE 0
    IN  IF exact # 0 THEN options[exact].value
        ELSE IF byLabel # 0 THEN options[byLabel].value
        ELSE IF byLabelContains # 0 THEN options[byLabelContains].value
        ELSE IF byKey # 0 THEN options[byKey].value
        ELSE options[1].value

(***************************************************************************)
(* Inputs of SpecMatch.                                                    *)
(***************************************************************************)
Paris == <<"P", "a", "r", "i", "s">>
London == <<"L", "o", "n", "d", "o", "n">>
PAR == JStr(<<"P", "A", "R">>)
LON == JStr(<<"L", "O", "N">>)
CityOptions == << [label |-> Paris, value |-> PAR], [label |-> London, value |-> LON] >>

ObjA == JObj(<< <<"a", JNum(1)>>, <<"b", JNum(9)>> >>)
ObjB == JObj(<< <<"a", JNum(1)>>, <<"b", JNum(2)>> >>)
ObjOptions == << [label |-> <<"A">>, value |-> ObjA], [label |-> <<"B">>, value |-> ObjB] >>

NumOptions == << [label |-> <<"l", "o">>, value |-> JNum(1)],
                 [label |-> <<"h", "i">>, value |-> JNum(2)] >>

\* the label of the first option is the value of the second
CrossOptions == << [label |-> <<"x">>, value |-> JStr(<<"y">>)],
                   [label |-> <<"z">>, value |-> JStr(<<"x">>)] >>

OptionLists == {<<>>, CityOptions, ObjOptions, NumOptions, CrossOptions}

ExtractedValues == {
    JStr(<<"p", "a", "r", "i", "s">>),
    JStr(<<"I", " ", "l", "i", "v", "e", " ", "i", "n", " ", "P", "a", "r", "i", "s">>),
    JStr(<<"T", "o", "k", "y", "o">>),
    JStr(<<"L", "O", "N">>),
    JStr(<<"l", "o", "n", "d", "o", "n">>),
    JStr(<<"x">>),
    JStr(<<"y">>),
    JStr(<<"H", "I">>),
    JStr(<<"1">>),
    JNum(1),
    JNum(2),
    JNum(3),
    JNull,
    ObjB,
    JObj(<< <<"b", JNum(2)>>, <<"a", JNum(1)>> >>),
    JObj(<< <<"b", JNum(2)>> >>),
    JObj(<< <<"c", JNum(3)>> >>),
    JObj(<< <<"a", JStr(<<"1">>)>> >>) }

NoCall == [op |-> "none", id |-> "", arg |-> <<>>, output |-> JUndefined, threw |-> FALSE]

\* let structuredOutput = undefined
NoStructuredOutput == [set |-> FALSE, answer |-> 0, hasErrors |-> FALSE, errors |-> <<>>]

\* build() was not called
NoBuilt == [set |-> FALSE, status |-> "", steps |-> <<>>,
            structuredOutput |-> NoStructuredOutput, sameObject |-> FALSE]

NoError == [set |-> FALSE, isError |-> FALSE, name |-> "", message |-> ""]
NoRuntimeOutput == [set |-> FALSE, status |-> "", output |-> JUndefined, errorMessage |-> <<>>]
NoResponse == [returned |-> FALSE, caught |-> FALSE, status |-> "", output |-> JUndefined,
               resolvedInput |-> EmptyObject, errorMessage |-> <<>>]
NoModelFailure == [set |-> FALSE, level |-> 0, error |-> NoError, cause |-> "", text |-> <<>>,
                   hasText |-> FALSE, recovered |-> FALSE,
                   output |-> [isObj |-> FALSE, obj |-> EmptyObject]]
NoRuntimeInput == [set |-> FALSE, input |-> EmptyObject]
NoOperation == [action |-> <<>>, actionName |-> "", auth |-> JUndefined, fields |-> <<>>]

NoSchema == [kind |-> "", labels |-> <<>>, nullable |-> FALSE]
NoProperty == [name |-> "", type |-> "", required |-> FALSE, refreshers |-> <<>>, options |-> <<>>]
NoLoaded == [threw |-> FALSE, options |-> <<>>]

SchemaIdle ==
    /\ sProperty = NoProperty
    /\ sLoaded = NoLoaded
    /\ sSchema = NoSchema
    /\ sThrew = FALSE
    /\ sDone = FALSE

DynamicIdle ==
    /\ dProperty = NoProperty
    /\ dOptions = JUndefined
    /\ dSchema = NoSchema
    /\ dThrew = FALSE
    /\ dDone = FALSE

\* a string that may be undefined or null; s is its characters
Absent == [def |-> FALSE, s |-> <<>>]
Text(s) == [def |-> TRUE, s |-> s]

\* no request has been posted
NoAuthn ==
    [phase |-> "idle", cookieName |-> Absent, cookie |-> Absent, body |-> Absent,
     via |-> "", called |-> FALSE, token |-> <<>>, caught |-> "", code |-> ""]

\* no tables have been compared
NoPurge ==
    [phase |-> "idle", dbPieces |-> {}, allCloudPieces |-> {}, piecesFilter |-> <<>>,
     deleted |-> {}]

ApiIdle ==
    /\ authn = NoAuthn
    /\ purge = NoPurge

SyncIdle ==
    /\ syncMode = ""
    /\ syncRuns = <<>>
    /\ ApiIdle

SortIdle ==
    /\ tProps = <<>>
    /\ tMap = <<>>
    /\ tThrew = FALSE
    /\ tDone = FALSE

ExecuteIdle ==
    /\ operation = NoOperation
    /\ pc = "idle"
    /\ depthToPropertyMap = <<>>
    /\ result = EmptyObject
    /\ levelIdx = 0
    /\ propIdx = 0
    /\ propertyToFill = EmptyObject
    /\ propertyDetails = <<>>
    /\ log = <<>>
    /\ modelFailure = NoModelFailure
    /\ runtimeInput = NoRuntimeInput
    /\ thrown = NoError
    /\ response = NoResponse
    /\ runtimeOutput = NoRuntimeOutput

TranscriptIdle ==
    /\ status = "IN_PROGRESS"
    /\ steps = <<>>
    /\ structuredOutput = NoStructuredOutput
    /\ clock = 0
    /\ lastCall = NoCall
    /\ calls = 0
    /\ built = NoBuilt
    /\ unfinished = [id \in {"c1", "c2"} |-> 0]

InitMatch ==
    /\ mExtracted \in ExtractedValues
    /\ mOptions \in OptionLists
    /\ mResult = JUndefined
    /\ mDone = FALSE
    /\ TranscriptIdle
    /\ ExecuteIdle
    /\ SchemaIdle
    /\ SortIdle
    /\ DynamicIdle
    /\ SyncIdle

Match ==
    /\ ~mDone
    /\ mResult' = matchDropdownValue(mExtracted, mOptions)
    /\ mDone' = TRUE
    /\ UNCHANGED <<mExtracted, mOptions>>
    /\ UNCHANGED transcriptVars
    /\ UNCHANGED executeVars
    /\ UNCHANGED schemaVars
    /\ UNCHANGED sortVars
    /\ UNCHANGED dynamicVars
    /\ UNCHANGED syncVars

NextMatch == Match

SpecMatch == InitMatch /\ [][NextMatch]_vars

(***************************************************************************)
(* C10.  The ladder as the claim words it, rung by rung, each rung tried  *)
(* over all options before the next: equality of content with an         *)
(* option's value, then case-insensitive equality with a label, then      *)
(* case-insensitive containment of a label in the string form, then a     *)
(* shared key with an equal value, then the first option.                  *)
(***************************************************************************)
KeySet(v) == {v.o[i][1] : i \in 1..Len(v.o)}

\* equality of content: the same kind and, for objects, the same keys with
\* the same values, whatever the order the keys were inserted in
ContentEquals(a, b) ==
    /\ a.t = b.t
    /\ IF a.t = "obj"
       THEN /\ KeySet(a) = KeySet(b)
            /\ \A k \in KeySet(a) : Get(a, k) = Get(b, k)
       ELSE a.s = b.s /\ a.n = b.n

LadderRung(v, options) ==
    LET str == toLowerCase(ExtractedStr(v)) IN
    IF \E i \in 1..Len(options) : ContentEquals(options[i].value, v) THEN 1
    ELSE IF \E i \in 1..Len(options) : toLowerCase(options[i].label) = str THEN 2
    ELSE IF \E i \in 1..Len(options) : includes(str, toLowerCase(options[i].label)) THEN 3
    ELSE IF v.t = "obj" /\ \E i \in 1..Len(options) :
                options[i].value.t = "obj" /\ HasSharedKey(v, options[i].value) THEN 4
    ELSE 5

RungHolds(r, v, o) ==
    CASE r = 1 -> ContentEquals(o.value, v)
      [] r = 2 -> toLowerCase(o.label) = toLowerCase(ExtractedStr(v))
      [] r = 3 -> includes(toLowerCase(ExtractedStr(v)), toLowerCase(o.label))
      [] r = 4 -> o.value.t = "obj" /\ HasSharedKey(v, o.value)
      [] OTHER -> TRUE

Ladder(v, options) ==
    LET r == LadderRung(v, options)
        i == CHOOSE j \in 1..Len(options) :
                /\ RungHolds(r, v, options[j])
                /\ \A h \in 1..(j - 1) : ~RungHolds(r, v, options[h])
    IN options[i].value

\* C10: the value returned for a non-empty option list is the ladder's, and
\* the three city inputs yield "PAR"
C10_LadderFirstMatchWins ==
    (mDone /\ Len(mOptions) > 0) =>
        /\ mResult = Ladder(mExtracted, mOptions)
        /\ (mOptions = CityOptions /\ mExtracted.t = "str"
              /\ toLowerCase(mExtracted.s) \in
                   { <<"p", "a", "r", "i", "s">>,
                     <<"i", " ", "l", "i", "v", "e", " ", "i", "n", " ", "p", "a", "r", "i", "s">>,
                     <<"t", "o", "k", "y", "o">> })
            => mResult = PAR


(***************************************************************************)
(* agentOutputBuilder.                                                     *)
(*                                                                         *)
(* A markdown block is [type, markdown]; a tool-call block is the         *)
(* ToolCallBase fields plus toolCallType and the fields of its kind       *)
(* (meta).  Names are sequences of tokens, "_" being a token of its own.  *)
(***************************************************************************)
MaxCalls == 4       \* builder calls and clock ticks of one run

\* endTime of a block that has none
NoTime == -1

ToolCallIds == {"c1", "c2"}

\* the output passed to finishToolCall
ToolOutputs == { JObj(<< <<"r", JNum(1)>> >>), JObj(<< <<"r", JNum(2)>> >>) }

\* output: { status: ExecutionToolStatus.FAILED }
FailedOutput == JObj(<< <<"status", JStr(<<"F", "A", "I", "L", "E", "D">>)>> >>)

ToolInput == JObj(<< <<"instruction", JStr(<<"g", "o">>)>> >>)

\* the agentTools argument of startToolCall
AgentTools == <<
    [type |-> "PIECE", toolName |-> <<"send">>, hasMeta |-> TRUE],
    [type |-> "FLOW", toolName |-> <<"flowA">>, hasMeta |-> TRUE],
    [type |-> "MCP", toolName |-> <<"zendesk">>, hasMeta |-> TRUE],
    [type |-> "FLOW", toolName |-> <<"flowB">>, hasMeta |-> FALSE],
    [type |-> "PIECE", toolName |-> <<"get", "_", "zendesk">>, hasMeta |-> TRUE] >>

\* the toolName argument of startToolCall
CalledNames == { <<"send">>, <<"flowA">>, <<"flowB">>,
                 <<"list", "_", "zendesk">>, <<"get", "_", "zendesk">>, <<"nope">> }

MarkdownChunks == { <<"a">>, <<"b">> }
FailMessage == <<"b">>

\* String.prototype.endsWith
endsWith(str, suffix) ==
    /\ Len(suffix) <= Len(str)
    /\ SubSeq(str, Len(str) - Len(suffix) + 1, Len(str)) = suffix

\* (mutant) an unmatched name resolves to the first declared tool
findMatchingToolOrFirst(toolName, tools) ==
    LET exactMatch == FindIndex(tools, LAMBDA tool : tool.toolName = toolName)
        mcpMatch == FindIndex(tools,
            LAMBDA tool : tool.type = "MCP" /\ endsWith(toolName, <<"_">> \o tool.toolName))
    IN IF exactMatch # 0 THEN exactMatch ELSE IF mcpMatch # 0 THEN mcpMatch ELSE 1

\* (mutant) the suffix match is tried before the exact match
findMatchingToolSuffixFirst(toolName, tools) ==
    LET exactMatch == FindIndex(tools, LAMBDA tool : tool.toolName = toolName)
        mcpMatch == FindIndex(tools,
            LAMBDA tool : tool.type = "MCP" /\ endsWith(toolName, <<"_">> \o tool.toolName))
    IN IF mcpMatch # 0 THEN mcpMatch ELSE exactMatch

\* findMatchingTool, as the index of the tool in tools, 0 for undefined
findMatchingTool(toolName, tools) ==
    LET exactMatch == FindIndex(tools, LAMBDA tool : tool.toolName = toolName)
        mcpMatch == FindIndex(tools,
            LAMBDA tool : tool.type = "MCP" /\ endsWith(toolName, <<"_">> \o tool.toolName))
    IN IF exactMatch # 0 THEN exactMatch ELSE mcpMatch

\* assertNotNullOrUndefined throws on the tool getToolMetadata looks up
\* (no tool) and on the field of its kind (pieceMetadata, externalFlowId,
\* serverUrl)
getToolMetadataThrows(toolName, tools) ==
    LET i == findMatchingTool(toolName, tools) IN
    i = 0 \/ ~tools[i].hasMeta

\* the block getToolMetadata returns
getToolMetadata(toolName, tools, baseTool) ==
    LET tool == tools[findMatchingTool(toolName, tools)]
        mcpToolDisplayName ==
            IF endsWith(toolName, <<"_">> \o tool.toolName)
            THEN SubSeq(toolName, 1, Len(toolName) - (Len(tool.toolName) + 1))
            ELSE toolName
    IN  CASE tool.type = "PIECE" ->
               [baseTool EXCEPT !.toolCallType = "PIECE",
                                !.displayName = <<>>,
                                !.meta = "pieceMetadata"]
          [] tool.type = "FLOW" ->
               [baseTool EXCEPT !.toolCallType = "FLOW",
                                !.displayName = tool.toolName,
                                !.meta = "externalFlowId"]
          [] OTHER ->
               [baseTool EXCEPT !.toolCallType = "MCP",
                                !.displayName = mcpToolDisplayName,
                                !.meta = "serverUrl"]

IsToolCall(block, toolCallId) ==
    block.type = "TOOL_CALL" /\ block.toolCallId = toolCallId

\* (mutant) the first tool-call block, whatever its id
FindToolIdxAnyId(toolCallId) ==
    FindIndex(steps, LAMBDA block : block.type = "TOOL_CALL")

\* (mutant) the last tool-call block, whatever its id
FindToolIdxLast(toolCallId) ==
    LET S == { i \in 1..Len(steps) : steps[i].type = "TOOL_CALL" }
    IN IF S = {} THEN 0 ELSE CHOOSE i \in S : \A j \in S : j <= i

\* steps.findIndex(block => TOOL_CALL with this toolCallId): 0 for -1
FindToolIdx(toolCallId) ==
    FindIndex(steps, LAMBDA block : IsToolCall(block, toolCallId))

Returned(op, id) ==
    [op |-> op, id |-> id, arg |-> <<>>, output |-> JUndefined, threw |-> FALSE]
Threw(op, id) ==
    [op |-> op, id |-> id, arg |-> <<>>, output |-> JUndefined, threw |-> TRUE]

setStatus(s) ==
    /\ status' = s
    /\ lastCall' = Returned("setStatus", "")
    /\ UNCHANGED <<steps, structuredOutput, clock>>

setStructuredOutput(output) ==
    /\ structuredOutput' = output
    /\ lastCall' = Returned("setStructuredOutput", "")
    /\ UNCHANGED <<status, steps, clock>>

\* (mutant) the errors list is replaced by the new error
AppendedErrorReplaces(so, errorDetails) ==
    IF so.set
    THEN [so EXCEPT !.hasErrors = TRUE, !.errors = <<errorDetails>>]
    ELSE so

\* structuredOutput after appendErrorToStructuredOutput(errorDetails)
AppendedError(so, errorDetails) ==
    IF so.set
    THEN [so EXCEPT !.hasErrors = TRUE, !.errors = Append(so.errors, errorDetails)]
    ELSE so

appendErrorToStructuredOutput(errorDetails) ==
    /\ structuredOutput' = AppendedError(structuredOutput, errorDetails)
    /\ lastCall' = Returned("appendErrorToStructuredOutput", "")
    /\ UNCHANGED <<status, steps, clock>>

\* (mutant) every addMarkdown opens a block
AddedMarkdownAlwaysOpens(blocks, markdown) ==
    Append(blocks, [type |-> "MARKDOWN", markdown |-> markdown])

\* (mutant) a block is opened unless steps is empty
AddedMarkdownOpensBehindAny(blocks, markdown) ==
    IF Len(blocks) = 0
    THEN <<[type |-> "MARKDOWN", markdown |-> markdown]>>
    ELSE IF Len(blocks) = 1 /\ blocks[1].type = "MARKDOWN"
    THEN <<[type |-> "MARKDOWN", markdown |-> blocks[1].markdown \o markdown]>>
    ELSE Append(blocks, [type |-> "MARKDOWN", markdown |-> markdown])

\* steps after addMarkdown(markdown)
AddedMarkdown(blocks, markdown) ==
    LET opened ==
            IF Len(blocks) = 0 \/ blocks[Len(blocks)].type # "MARKDOWN"
            THEN Append(blocks, [type |-> "MARKDOWN", markdown |-> <<>>])
            ELSE blocks
    IN [opened EXCEPT ![Len(opened)].markdown = @ \o markdown]

addMarkdown(markdown) ==
    /\ steps' = AddedMarkdown(steps, markdown)
    /\ lastCall' = Returned("addMarkdown", "")
    /\ UNCHANGED <<status, structuredOutput, clock>>

\* (mutant) the message is dropped
failStatusOnly(hasMessage) ==
    /\ status' = "FAILED"
    /\ lastCall' = [Returned("fail", "") EXCEPT !.arg = IF hasMessage THEN FailMessage ELSE <<>>]
    /\ UNCHANGED <<steps, structuredOutput, clock>>

fail(hasMessage) ==
    /\ status' = "FAILED"
    /\ IF hasMessage
       THEN /\ steps' = AddedMarkdown(steps, FailMessage)
            /\ structuredOutput' = AppendedError(structuredOutput, FailMessage)
       ELSE UNCHANGED <<steps, structuredOutput>>
    /\ lastCall' = [Returned("fail", "") EXCEPT !.arg = IF hasMessage THEN FailMessage ELSE <<>>]
    /\ UNCHANGED clock

startToolCall(toolName, toolCallId) ==
    LET baseTool == [type |-> "TOOL_CALL",
                     toolName |-> toolName,
                     toolCallId |-> toolCallId,
                     status |-> "in-progress",
                     input |-> ToolInput,
                     output |-> JUndefined,
                     startTime |-> clock,
                     endTime |-> NoTime,
                     toolCallType |-> "",
                     displayName |-> <<>>,
                     meta |-> ""]
    IN
    /\ IF getToolMetadataThrows(toolName, AgentTools)
       THEN /\ lastCall' = [Threw("startToolCall", toolCallId) EXCEPT !.arg = toolName]
            /\ UNCHANGED steps
       ELSE /\ steps' = Append(steps, getToolMetadata(toolName, AgentTools, baseTool))
            /\ lastCall' = [Returned("startToolCall", toolCallId) EXCEPT !.arg = toolName]
    /\ UNCHANGED <<status, structuredOutput, clock>>

\* (mutant) the output is not written
CompletedKeepsOutput(tool, output) ==
    [tool EXCEPT !.status = "completed", !.endTime = clock]

\* the block finishToolCall and failToolCall write at toolIdx
Completed(tool, output) ==
    [tool EXCEPT !.status = "completed", !.endTime = clock, !.output = output]

finishToolCall(toolCallId, output) ==
    LET toolIdx == FindToolIdx(toolCallId) IN
    /\ IF toolIdx = 0
       THEN /\ lastCall' = [Threw("finishToolCall", toolCallId) EXCEPT !.output = output]
            /\ UNCHANGED steps
       ELSE /\ steps' = [steps EXCEPT ![toolIdx] = Completed(steps[toolIdx], output)]
            /\ lastCall' = [Returned("finishToolCall", toolCallId) EXCEPT !.output = output]
    /\ UNCHANGED <<status, structuredOutput, clock>>

failToolCall(toolCallId) ==
    LET toolIdx == FindToolIdx(toolCallId) IN
    /\ IF toolIdx = 0
       THEN /\ lastCall' = Threw("failToolCall", toolCallId)
            /\ UNCHANGED steps
       ELSE /\ steps' = [steps EXCEPT ![toolIdx] = Completed(steps[toolIdx], FailedOutput)]
            /\ lastCall' = Returned("failToolCall", toolCallId)
    /\ UNCHANGED <<status, structuredOutput, clock>>

\* time passes between two calls
Tick ==
    /\ clock' = clock + 1
    /\ lastCall' = Returned("tick", "")
    /\ UNCHANGED <<status, steps, structuredOutput>>

\* the argument of setStructuredOutput
StructuredOutputs ==
    { [set |-> TRUE, answer |-> 1, hasErrors |-> FALSE, errors |-> <<>>],
      [set |-> TRUE, answer |-> 2, hasErrors |-> TRUE, errors |-> << <<"e">> >>] }

MatchIdle ==
    /\ mExtracted = JUndefined
    /\ mOptions = <<>>
    /\ mResult = JUndefined
    /\ mDone = FALSE

InitTranscript ==
    /\ TranscriptIdle
    /\ MatchIdle
    /\ ExecuteIdle
    /\ SchemaIdle
    /\ SortIdle
    /\ DynamicIdle
    /\ SyncIdle

\* one more call or tick of the run; nothing else moves
Counted ==
    /\ calls < MaxCalls
    /\ calls' = calls + 1
    /\ UNCHANGED matchVars
    /\ UNCHANGED executeVars
    /\ UNCHANGED schemaVars
    /\ UNCHANGED sortVars
    /\ UNCHANGED dynamicVars
    /\ UNCHANGED syncVars

\* what the holder of the value build() returned sees after a call: steps is
\* the array of the builder itself, structuredOutput the object the builder
\* had at build() until setStructuredOutput gives the builder another one,
\* status a copy
Seen ==
    built' =
        IF ~built.set THEN built
        ELSE [built EXCEPT
                !.steps = steps',
                !.structuredOutput =
                    IF built.sameObject /\ lastCall'.op # "setStructuredOutput"
                    THEN structuredOutput' ELSE @,
                !.sameObject = built.sameObject /\ lastCall'.op # "setStructuredOutput"]

\* build(): { status, steps, structuredOutput, prompt }
build ==
    /\ built' = [set |-> TRUE, status |-> status, steps |-> steps,
                 structuredOutput |-> structuredOutput, sameObject |-> TRUE]
    /\ lastCall' = Returned("build", "")
    /\ UNCHANGED <<status, steps, structuredOutput, clock>>

\* history of the calls: a startToolCall that returned awaits a finishToolCall
\* or failToolCall of its id; one that returned answers the oldest awaiting
Followed ==
    unfinished' =
        IF lastCall'.threw THEN unfinished
        ELSE IF lastCall'.op = "startToolCall"
        THEN [unfinished EXCEPT ![lastCall'.id] = @ + 1]
        ELSE IF lastCall'.op \in {"finishToolCall", "failToolCall"}
        THEN [unfinished EXCEPT ![lastCall'.id] = IF @ > 0 THEN @ - 1 ELSE 0]
        ELSE unfinished

SetStatus == Counted /\ (\E s \in {"IN_PROGRESS", "FAILED", "COMPLETED"} : setStatus(s)) /\ Seen /\ Followed
SetStructuredOutput ==
    Counted /\ (\E output \in StructuredOutputs : setStructuredOutput(output)) /\ Seen /\ Followed
AppendError == Counted /\ appendErrorToStructuredOutput(<<"e">>) /\ Seen /\ Followed
Fail == Counted /\ (\E hasMessage \in BOOLEAN : fail(hasMessage)) /\ Seen /\ Followed
AddMarkdown == Counted /\ (\E markdown \in MarkdownChunks : addMarkdown(markdown)) /\ Seen /\ Followed
StartToolCall ==
    /\ Counted
    /\ \E toolName \in CalledNames, toolCallId \in ToolCallIds :
          startToolCall(toolName, toolCallId)
    /\ Seen /\ Followed
FinishToolCall ==
    /\ Counted
    /\ \E toolCallId \in ToolCallIds, output \in ToolOutputs :
          finishToolCall(toolCallId, output)
    /\ Seen /\ Followed
FailToolCall == Counted /\ (\E toolCallId \in ToolCallIds : failToolCall(toolCallId)) /\ Seen /\ Followed
ClockTick == Counted /\ Tick /\ Seen /\ Followed
Build == Counted /\ build /\ Followed

NextTranscript ==
    \/ SetStatus
    \/ SetStructuredOutput
    \/ AppendError
    \/ Fail
    \/ AddMarkdown
    \/ StartToolCall
    \/ FinishToolCall
    \/ FailToolCall
    \/ ClockTick
    \/ Build

SpecTranscript == InitTranscript /\ [][NextTranscript]_vars


(***************************************************************************)
(* Claims on the tool-call records of the transcript.                      *)
(***************************************************************************)
BlocksOf(blocks, id) == {i \in 1..Len(blocks) : IsToolCall(blocks[i], id)}

\* C4: once a tool-call record is completed, no later call changes its
\* status, its output or its end timestamp
C4_CompletedRecordIsFinal ==
    [][\A i \in 1..Len(steps) :
         (steps[i].type = "TOOL_CALL" /\ steps[i].status = "completed") =>
            /\ Len(steps') >= i
            /\ steps'[i].type = "TOOL_CALL"
            /\ steps'[i].status = steps[i].status
            /\ steps'[i].output = steps[i].output
            /\ steps'[i].endTime = steps[i].endTime]_vars

\* C5: startToolCall with an id no block carries yet appends the one block of
\* that id, in-progress, without output or end timestamp; finishToolCall on
\* that one in-progress block leaves one block of the id, completed, with the
\* end timestamp read at the call and the output given; failToolCall does the
\* same with the fixed failure output
C5_StartThenFinish ==
    [][\A id \in ToolCallIds :
        /\ (/\ lastCall'.op = "startToolCall" /\ lastCall'.id = id /\ ~lastCall'.threw
            /\ calls' = calls + 1
            /\ BlocksOf(steps, id) = {})
           => /\ BlocksOf(steps', id) = {Len(steps')}
              /\ steps'[Len(steps')].status = "in-progress"
              /\ steps'[Len(steps')].output = JUndefined
              /\ steps'[Len(steps')].endTime = NoTime
        /\ (/\ lastCall'.op \in {"finishToolCall", "failToolCall"} /\ lastCall'.id = id
            /\ calls' = calls + 1
            /\ Cardinality(BlocksOf(steps, id)) = 1
            /\ \A i \in BlocksOf(steps, id) : steps[i].status = "in-progress")
           => /\ ~lastCall'.threw
              /\ Len(steps') = Len(steps)
              /\ BlocksOf(steps', id) = BlocksOf(steps, id)
              /\ \A i \in BlocksOf(steps', id) :
                    /\ steps'[i].status = "completed"
                    /\ steps'[i].endTime = clock /\ steps'[i].endTime # NoTime
                    /\ steps'[i].output =
                         IF lastCall'.op = "finishToolCall" THEN lastCall'.output
                         ELSE FailedOutput
                    /\ steps'[i].startTime = steps[i].startTime
                    /\ steps'[i].toolCallId = id]_vars

\* a call was started, time passed, and the call was finished with an output
C5_Witness ==
    /\ lastCall.op = "finishToolCall" /\ ~lastCall.threw
    /\ Cardinality(BlocksOf(steps, lastCall.id)) = 1
    /\ \A i \in BlocksOf(steps, lastCall.id) :
          /\ steps[i].status = "completed"
          /\ steps[i].output = lastCall.output
          /\ steps[i].endTime > steps[i].startTime

\* C6: finishToolCall or failToolCall with an id no tool-call block carries
\* throws and leaves status, steps and structured output as they were
C6_UnknownIdFailsHard ==
    [][(/\ lastCall'.op \in {"finishToolCall", "failToolCall"}
        /\ calls' = calls + 1
        /\ BlocksOf(steps, lastCall'.id) = {})
       => /\ lastCall'.threw
          /\ UNCHANGED <<status, steps, structuredOutput>>]_vars

\* finish or fail threw on a transcript that holds blocks of another id
C6_Witness ==
    /\ lastCall.op \in {"finishToolCall", "failToolCall"}
    /\ lastCall.threw
    /\ BlocksOf(steps, lastCall.id) = {}
    /\ \E i \in 1..Len(steps) : steps[i].type = "TOOL_CALL"
    /\ structuredOutput.set


(***************************************************************************)
(* execute and resolveProperties.                                          *)
(*                                                                         *)
(* A property declaration is [name, type, required, refreshers, options]; *)
(* an action is the sequence of its declarations, in declaration order.   *)
(***************************************************************************)
Prop(name, type, required, refreshers, options) ==
    [name |-> name, type |-> type, required |-> required,
     refreshers |-> refreshers, options |-> options]

\* callFlow.props
ModeOptions == << [label |-> <<"S", "i", "m", "p", "l", "e">>,
                   value |-> JStr(<<"s", "i", "m", "p", "l", "e">>)],
                  [label |-> <<"A", "d", "v">>, value |-> JStr(<<"a", "d", "v">>)] >>

CallFlowProps == <<
    Prop("flow", "DROPDOWN", TRUE, <<>>, <<>>),
    Prop("mode", "STATIC_DROPDOWN", TRUE, <<>>, ModeOptions),
    Prop("flowProps", "DYNAMIC", TRUE, <<"flow", "mode">>, <<>>),
    Prop("waitForResponse", "CHECKBOX", FALSE, <<>>, <<>>) >>

\* an action of one level: a static dropdown and a number
CurrencyOptions == << [label |-> <<"U", "S", "D">>, value |-> JStr(<<"U", "S", "D">>)],
                      [label |-> <<"E", "U", "R">>, value |-> JStr(<<"E", "U", "R">>)] >>

TransferProps == <<
    Prop("currency", "STATIC_DROPDOWN", TRUE, <<>>, CurrencyOptions),
    Prop("amount", "NUMBER", TRUE, <<>>, <<>>) >>

\* an action with an auth property, a text and a secret text
LoginProps == <<
    Prop("conn", "CUSTOM_AUTH", TRUE, <<>>, <<>>),
    Prop("note", "SHORT_TEXT", FALSE, <<>>, <<>>),
    Prop("pin", "SECRET_TEXT", TRUE, <<>>, <<>>) >>

\* an action whose two dynamic properties refresh on each other
CyclicProps == <<
    Prop("a", "DYNAMIC", TRUE, <<"b">>, <<>>),
    Prop("b", "DYNAMIC", TRUE, <<"a">>, <<>>) >>

\* an action of three levels
ChainProps == <<
    Prop("a", "SHORT_TEXT", TRUE, <<>>, <<>>),
    Prop("b", "DYNAMIC", TRUE, <<"a">>, <<>>),
    Prop("c", "DYNAMIC", FALSE, <<"b">>, <<>>) >>

\* an action with a dynamic property that refreshes on itself
SelfCyclicProps == <<
    Prop("a", "SHORT_TEXT", TRUE, <<>>, <<>>),
    Prop("b", "DYNAMIC", TRUE, <<"b">>, <<>>),
    Prop("c", "DYNAMIC", TRUE, <<"a", "b">>, <<>>) >>

\* the label of the first option is the value of the second
SizeOptions == << [label |-> <<"x">>, value |-> JStr(<<"y">>)],
                  [label |-> <<"z">>, value |-> JStr(<<"x">>)] >>

\* an action with an optional dropdown and a multi-select
SurveyProps == <<
    Prop("size", "STATIC_DROPDOWN", FALSE, <<>>, SizeOptions),
    Prop("tags", "STATIC_MULTI_SELECT_DROPDOWN", TRUE, <<>>, CurrencyOptions) >>

Actions == {CallFlowProps, TransferProps, LoginProps, CyclicProps, SelfCyclicProps,
            ChainProps, SurveyProps}

PropNames(props) == {props[i].name : i \in 1..Len(props)}
PropNamed(props, name) == props[CHOOSE i \in 1..Len(props) : props[i].name = name]

(***************************************************************************)
(* tsort.sortPropertiesByDependencies: the level of a property is 0 when  *)
(* it has no refreshers and 1 + the greatest level of its refreshers      *)
(* otherwise; a property on a cycle has no level.                          *)
(***************************************************************************)
\* (mutant) the level of a property is the number of its refreshers
LevelOfCountsRefreshers(props, name, fuel) ==
    Cardinality({PropNamed(props, name).refreshers[i] :
                    i \in 1..Len(PropNamed(props, name).refreshers)})

RECURSIVE LevelOf(_, _, _)
LevelOf(props, name, fuel) ==
    LET p == PropNamed(props, name)
        deps == {p.refreshers[i] : i \in 1..Len(p.refreshers)} \cap PropNames(props)
        below == {LevelOf(props, d, fuel - 1) : d \in deps}
    IN  IF deps = {} THEN 0
        ELSE IF fuel = 0 \/ -1 \in below THEN -1
        ELSE 1 + CHOOSE m \in below : \A x \in below : x <= m

\* (mutant) no cycle is ever found
IsCyclicNever(props) == FALSE

IsCyclic(props) ==
    \E i \in 1..Len(props) : LevelOf(props, props[i].name, Len(props)) = -1

\* the names of the properties of the given level, in declaration order
RECURSIVE NamesAtLevel(_, _, _)
NamesAtLevel(props, all, d) ==
    IF props = <<>> THEN <<>>
    ELSE LET rest == NamesAtLevel(Tail(props), all, d) IN
         IF LevelOf(all, Head(props).name, Len(all)) = d
         THEN <<Head(props).name>> \o rest
         ELSE rest

MaxLevel(props) ==
    LET ls == {LevelOf(props, props[i].name, Len(props)) : i \in 1..Len(props)}
    IN CHOOSE m \in ls : \A x \in ls : x <= m

\* the level map: element d + 1 holds the names of depth d
sortPropertiesByDependencies(props) ==
    [d \in 1..(MaxLevel(props) + 1) |-> NamesAtLevel(props, props, d - 1)]

(***************************************************************************)
(* Errors.  A thrown value is an Error with a message, or another value    *)
(* whose String() is its message field.                                    *)
(***************************************************************************)
Err(name, message) == [set |-> TRUE, isError |-> TRUE, name |-> name, message |-> message]
NonError(str) == [set |-> TRUE, isError |-> FALSE, name |-> "", message |-> str]

\* error instanceof Error ? error.message : String(error)
ErrorMessage(error) == error.message

(***************************************************************************)
(* propertyToSchema.  A schema is [kind, labels, nullable].                *)
(***************************************************************************)
Schema(kind, labels, nullable) == [kind |-> kind, labels |-> labels, nullable |-> nullable]

SkipTypes == {"BASIC_AUTH", "OAUTH2", "CUSTOM_AUTH", "CUSTOM", "MARKDOWN"}
UnsupportedTypes == {"OAUTH2", "BASIC_AUTH", "CUSTOM_AUTH", "SECRET_TEXT"}

\* options.map(o => o.label).filter(l => typeof l === 'string' && l.length > 0)
Labels(options) ==
    LET RECURSIVE Walk(_)
        Walk(os) == IF os = <<>> THEN <<>>
                    ELSE IF Len(Head(os).label) > 0
                         THEN <<Head(os).label>> \o Walk(Tail(os))
                         ELSE Walk(Tail(os))
    IN Walk(options)

\* loadDropdownLabels: the static options, or what loadOptions answered;
\* a failure of loadOptions is caught and gives no labels
loadDropdownLabels(property, loaded) ==
    IF property.type \in {"STATIC_DROPDOWN", "STATIC_MULTI_SELECT_DROPDOWN"}
    THEN Labels(property.options)
    ELSE IF loaded.threw THEN <<>> ELSE Labels(loaded.options)

\* the schema propertyToSchema returns for a property of a supported type;
\* labels are those of loadDropdownLabels
propertyToSchema(property, labels) ==
    LET kind ==
          CASE property.type \in {"SHORT_TEXT", "LONG_TEXT", "MARKDOWN", "DATE_TIME",
                                  "FILE", "COLOR", "CUSTOM"} -> "string"
            [] property.type \in {"DROPDOWN", "STATIC_DROPDOWN"} ->
                 IF Len(labels) > 0 THEN "enum" ELSE "union"
            [] property.type \in {"MULTI_SELECT_DROPDOWN", "STATIC_MULTI_SELECT_DROPDOWN"} ->
                 "arrayUnion"
            [] property.type = "NUMBER" -> "number"
            [] property.type = "ARRAY" -> "array"
            [] property.type \in {"OBJECT", "JSON", "DYNAMIC"} -> "object"
            [] OTHER -> "boolean"
    IN  IF property.type = "ARRAY" THEN Schema("array", <<>>, FALSE)
        ELSE Schema(kind,
                    IF kind = "enum" THEN labels ELSE <<>>,
                    ~property.required)

\* values the model can return for a property under its schema
SchemaValues(schema) ==
    (CASE schema.kind = "string" -> {JStr(<<"h", "i">>)}
       [] schema.kind = "enum" -> {JStr(schema.labels[i]) : i \in 1..Len(schema.labels)}
       [] schema.kind = "union" -> {JStr(<<"x">>), JNum(1)}
       [] schema.kind = "number" -> {JNum(5)}
       [] schema.kind = "boolean" -> {JBool(TRUE)}
       [] schema.kind = "object" -> {JObj(<< <<"payload", JStr(<<"d">>)>> >>)}
       [] schema.kind = "arrayUnion" ->
            {JArr(<<JStr(<<"U", "S", "D">>), JStr(<<"E", "U", "R">>)>>), JArr(<<>>)}
       [] OTHER -> {})
    \cup (IF schema.nullable THEN {JNull} ELSE {})

\* the objects z.object(propertyToFill).strict() accepts
ConformingOutputs(fill) ==
    {out \in [DOMAIN fill -> UNION {SchemaValues(fill[k]) : k \in DOMAIN fill}] :
        \A k \in DOMAIN fill : out[k] \in SchemaValues(fill[k])}

(***************************************************************************)
(* What pieceHelper.executeProps answers.                                  *)
(***************************************************************************)
FlowOptions == << [label |-> <<"F", "1">>, value |-> JObj(<< <<"externalId", JStr(<<"f", "1">>)>> >>)],
                  [label |-> <<"F", "2">>, value |-> JObj(<< <<"externalId", JStr(<<"f", "2">>)>> >>)] >>

LoadOptionsAnswers ==
    { [threw |-> TRUE, options |-> <<>>],
      [threw |-> FALSE, options |-> <<>>],
      [threw |-> FALSE, options |-> FlowOptions] }

\* for a dynamic property: it throws, or { disabled: true }, or sub-properties
DynamicAnswers == {"throw", "disabled", "props"}

(***************************************************************************)
(* The text of a rejected generation, as tokens: the opening fence (three *)
(* backquotes and the word json), the bare fence (three backquotes), a    *)
(* JSON text (with the value it parses to), text that is no JSON, and the *)
(* word json.                                                              *)
(***************************************************************************)
FenceJson == [k |-> "fence+json", isObj |-> FALSE, v |-> EmptyObject]
Fence == [k |-> "fence", isObj |-> FALSE, v |-> EmptyObject]
Word == [k |-> "json", isObj |-> FALSE, v |-> EmptyObject]
Junk == [k |-> "not json at all", isObj |-> FALSE, v |-> EmptyObject]
JsonObject(v) == [k |-> "{...}", isObj |-> TRUE, v |-> v]
JsonNull == [k |-> "null", isObj |-> FALSE, v |-> EmptyObject]

\* error.text starts with the opening fence and ends with the bare fence
IsFenced(text) ==
    /\ Len(text) > 0
    /\ text[1] = FenceJson
    /\ text[Len(text)] = Fence

RemoveAt(seq, i) == SubSeq(seq, 1, i - 1) \o SubSeq(seq, i + 1, Len(seq))

\* String.replace of the opening fence by '': the first occurrence goes
StripFenceJson(text) ==
    LET i == FindIndex(text, LAMBDA tok : tok = FenceJson)
    IN IF i = 0 THEN text ELSE RemoveAt(text, i)

\* String.replace of the bare fence by '': the first occurrence goes, be it
\* the start of an opening fence, of which the word json then stays
StripFence(text) ==
    LET i == FindIndex(text, LAMBDA tok : tok = Fence \/ tok = FenceJson)
    IN IF i = 0 THEN text
       ELSE IF text[i] = Fence THEN RemoveAt(text, i)
       ELSE [text EXCEPT ![i] = Word]

\* JSON.parse: a text that is one JSON value parses, anything else throws
JSONparseThrows(text) == ~(Len(text) = 1 /\ text[1].k \in {"{...}", "null"})
JSONparse(text) == [isObj |-> text[1].isObj, obj |-> text[1].v]

\* (mutant) the cause of the failure is not looked at
RecoveryAppliesAnyCause(failure) ==
    /\ failure.error.name = "NoObjectGeneratedError"
    /\ failure.hasText
    /\ IsFenced(failure.text)

\* the condition of the catch handler of generateText
RecoveryApplies(failure) ==
    /\ failure.error.name = "NoObjectGeneratedError"
    /\ failure.cause = "JSONParseError"
    /\ failure.hasText
    /\ IsFenced(failure.text)


(***************************************************************************)
(* The operation execute is called with.                                   *)
(***************************************************************************)
AuthSecret == JStr(<<"k", "e", "y">>)
Redacted == JStr(<<"R", "e", "d", "a", "c", "t", "e", "d">>)

Field(name, mode, value) == [name |-> name, mode |-> mode, value |-> value]

\* predefinedInput.fields: none, or one field on one of the first two properties
FieldChoices(props) ==
    {<<>>} \cup
    { <<Field(props[i].name, mode, JStr(<<"a", "d", "v">>))>> :
        i \in 1..2, mode \in {"CHOOSE_YOURSELF", "LEAVE_EMPTY", "AGENT_DECIDE"} }

Operations ==
    { [action |-> props, actionName |-> "act", auth |-> auth, fields |-> fields] :
        props \in Actions, auth \in {JUndefined, AuthSecret},
        fields \in UNION {FieldChoices(a) : a \in Actions} }
    \ { op \in [action : Actions, actionName : {"act"}, auth : {JUndefined, AuthSecret},
                fields : UNION {FieldChoices(a) : a \in Actions}] :
           op.fields \notin FieldChoices(op.action) }

\* result after the seeding of resolveProperties
RECURSIVE SeedFields(_, _)
SeedFields(acc, fields) ==
    IF fields = <<>> THEN acc
    ELSE LET f == Head(fields)
             next == IF f.mode = "CHOOSE_YOURSELF" THEN Spread(acc, [k \in {f.name} |-> f.value])
                     ELSE IF f.mode = "LEAVE_EMPTY" THEN Spread(acc, [k \in {f.name} |-> JUndefined])
                     ELSE acc
         IN SeedFields(next, Tail(fields))

Seeded(op) ==
    SeedFields(IF op.auth # JUndefined THEN [k \in {"auth"} |-> op.auth] ELSE EmptyObject,
               op.fields)

\* (mutant) the levels in descending depth
EntriesDescending(map) == [i \in 1..Len(map) |-> <<Len(map) - i, map[Len(map) - i + 1]>>]

\* Object.entries(depthToPropertyMap): integer keys come in ascending order
Entries(map) == [i \in 1..Len(map) |-> <<i - 1, map[i]>>]

Depth == Entries(depthToPropertyMap)[levelIdx][1]
Properties == Entries(depthToPropertyMap)[levelIdx][2]
Property == PropNamed(operation.action, Properties[propIdx])

\* a call to a collaborator: input is the accumulator it is made with, raw
\* the output of the model call as generateText (or the recovery) gave it
Event(e, prop) ==
    [e |-> e, level |-> Depth, prop |-> prop, input |-> result, raw |-> EmptyObject]

\* (mutant) the message of the error is not reported
CaughtResponseNoMessage(error) ==
    [returned |-> TRUE, caught |-> TRUE, status |-> "FAILED", output |-> JUndefined,
     resolvedInput |-> EmptyObject,
     errorMessage |-> <<"Tool execution error: ">>]

\* what the catch block of execute returns
CaughtResponse(error) ==
    [returned |-> TRUE, caught |-> TRUE, status |-> "FAILED", output |-> JUndefined,
     resolvedInput |-> EmptyObject,
     errorMessage |-> <<"Tool execution error: ", ErrorMessage(error)>>]

\* an error thrown inside the try block: execute returns from its catch block
Throws(error) ==
    /\ thrown' = error
    /\ response' = CaughtResponse(error)
    /\ pc' = "done"
    /\ UNCHANGED <<operation, depthToPropertyMap, result, levelIdx, propIdx,
                   propertyToFill, propertyDetails, runtimeInput>>

Idle ==
    /\ UNCHANGED matchVars
    /\ UNCHANGED transcriptVars
    /\ UNCHANGED schemaVars
    /\ UNCHANGED sortVars
    /\ UNCHANGED dynamicVars
    /\ UNCHANGED syncVars

Init ==
    /\ operation \in Operations
    /\ pc = "lookup"
    /\ depthToPropertyMap = <<>>
    /\ result = EmptyObject
    /\ levelIdx = 0
    /\ propIdx = 0
    /\ propertyToFill = EmptyObject
    /\ propertyDetails = <<>>
    /\ log = <<>>
    /\ modelFailure = NoModelFailure
    /\ runtimeInput = NoRuntimeInput
    /\ thrown = NoError
    /\ response = NoResponse
    /\ runtimeOutput = NoRuntimeOutput
    /\ MatchIdle
    /\ TranscriptIdle
    /\ SchemaIdle
    /\ SortIdle
    /\ DynamicIdle
    /\ SyncIdle

\* pieceLoader.getPieceAndActionOrThrow rejects
LookupFails ==
    /\ pc = "lookup"
    /\ Throws(Err("ActionNotFound", "action not found"))
    /\ UNCHANGED <<log, modelFailure>>
    /\ UNCHANGED runtimeOutput
    /\ Idle

\* the action is found; tsort runs and resolveProperties seeds result
LookupAndSort ==
    /\ pc = "lookup"
    /\ IF IsCyclic(operation.action)
       THEN /\ Throws(Err("CyclicDependency", "cyclic dependency"))
       ELSE /\ depthToPropertyMap' = sortPropertiesByDependencies(operation.action)
            /\ result' = Seeded(operation)
            /\ levelIdx' = 1
            /\ pc' = "level"
            /\ UNCHANGED <<operation, propIdx, propertyToFill, propertyDetails,
                           runtimeInput, thrown, response>>
    /\ UNCHANGED <<log, modelFailure>>
    /\ UNCHANGED runtimeOutput
    /\ Idle

\* (mutant) the level loop is left after its first level
LevelsDoneAfterFirst == levelIdx > 1

\* the level loop has gone through every entry of depthToPropertyMap
LevelsDone == levelIdx > Len(depthToPropertyMap)

\* the head of the level loop; after the last level resolveProperties
\* returns and execute hands the step to the action runtime
EnterLevel ==
    /\ pc = "level"
    /\ IF LevelsDone
       THEN /\ runtimeInput' = [set |-> TRUE, input |-> result]
            /\ pc' = "run"
            /\ log' = Append(log, [e |-> "run", level |-> Len(depthToPropertyMap),
                                   prop |-> "", input |-> result, raw |-> EmptyObject])
            /\ UNCHANGED <<propIdx, propertyToFill, propertyDetails>>
       ELSE /\ propertyToFill' = EmptyObject
            /\ propertyDetails' = <<>>
            /\ propIdx' = 1
            /\ pc' = "property"
            /\ UNCHANGED <<runtimeInput, log>>
    /\ UNCHANGED <<operation, depthToPropertyMap, result, levelIdx, modelFailure,
                   thrown, response>>
    /\ UNCHANGED runtimeOutput
    /\ Idle

\* (mutant) a level is never taken to have nothing to fill
NothingToFillNever == FALSE

\* Object.keys(propertyToFill).length === 0
NothingToFill == DOMAIN propertyToFill = {}

\* the head of the property loop
NextProperty ==
    /\ pc = "property"
    /\ IF propIdx > Len(Properties)
       THEN IF NothingToFill
            THEN /\ levelIdx' = levelIdx + 1
                 /\ pc' = "level"
                 /\ UNCHANGED propIdx
            ELSE /\ pc' = "generate"
                 /\ UNCHANGED <<levelIdx, propIdx>>
       ELSE IF Property.type \in SkipTypes \/ Property.name \in DOMAIN result
            THEN /\ propIdx' = propIdx + 1
                 /\ UNCHANGED <<pc, levelIdx>>
            ELSE /\ pc' = "schema"
                 /\ UNCHANGED <<levelIdx, propIdx>>
    /\ UNCHANGED <<operation, depthToPropertyMap, result, propertyToFill,
                   propertyDetails, log, modelFailure, runtimeInput, thrown, response>>
    /\ UNCHANGED runtimeOutput
    /\ Idle

SchemaDone(schema, events) ==
    /\ propertyToFill' = Spread(propertyToFill, [k \in {Property.name} |-> schema])
    /\ pc' = "detail"
    /\ log' = log \o events
    /\ UNCHANGED <<operation, depthToPropertyMap, result, levelIdx, propIdx,
                   propertyDetails, modelFailure, runtimeInput, thrown, response>>

\* await propertyToSchema(property, propertyFromAction, operation, result)
SynthesizeSchema ==
    /\ pc = "schema"
    /\ \/ /\ Property.type \in UnsupportedTypes
          /\ Throws(Err("Error", "Unsupported property type"))
          /\ log' = Append(log, Event("schema", Property.name))
       \/ /\ Property.type = "DROPDOWN"
          /\ \E loaded \in LoadOptionsAnswers :
                SchemaDone(propertyToSchema(Property, loadDropdownLabels(Property, loaded)),
                           <<Event("schema", Property.name),
                             Event("executeProps", Property.name)>>)
       \/ /\ Property.type = "DYNAMIC"
          /\ \E answer \in DynamicAnswers :
                IF answer = "throw"
                THEN /\ Throws(Err("Error", "executeProps failed"))
                     /\ log' = log \o <<Event("schema", Property.name),
                                        Event("executeProps", Property.name)>>
                ELSE SchemaDone(propertyToSchema(Property, <<>>),
                                <<Event("schema", Property.name),
                                  Event("executeProps", Property.name)>>)
       \/ /\ Property.type \notin UnsupportedTypes \cup {"DROPDOWN", "DYNAMIC"}
          /\ SchemaDone(propertyToSchema(Property, loadDropdownLabels(Property,
                            [threw |-> FALSE, options |-> <<>>])),
                        <<Event("schema", Property.name)>>)
    /\ UNCHANGED modelFailure
    /\ UNCHANGED runtimeOutput
    /\ Idle

Detail(property, hasOptions, options) ==
    [name |-> property.name, type |-> property.type,
     hasOptions |-> hasOptions, options |-> options]

DetailDone(detail, events) ==
    /\ propertyDetails' = Append(propertyDetails, detail)
    /\ propIdx' = propIdx + 1
    /\ pc' = "property"
    /\ log' = log \o events
    /\ UNCHANGED <<operation, depthToPropertyMap, result, levelIdx, propertyToFill,
                   modelFailure, runtimeInput, thrown, response>>

\* await buildPropertyDetail(property, propertyFromAction, operation, result)
BuildPropertyDetail ==
    /\ pc = "detail"
    /\ \/ /\ Property.type \in {"STATIC_DROPDOWN", "STATIC_MULTI_SELECT_DROPDOWN"}
          /\ DetailDone(Detail(Property, TRUE, Property.options), <<>>)
       \/ /\ Property.type \in {"DROPDOWN", "MULTI_SELECT_DROPDOWN"}
          /\ \E loaded \in LoadOptionsAnswers :
                IF loaded.threw
                THEN /\ Throws(Err("Error", "executeProps failed"))
                     /\ log' = Append(log, Event("executeProps", Property.name))
                     /\ UNCHANGED modelFailure
                ELSE DetailDone(Detail(Property, TRUE, loaded.options),
                                <<Event("executeProps", Property.name)>>)
       \/ /\ Property.type \notin {"STATIC_DROPDOWN", "STATIC_MULTI_SELECT_DROPDOWN",
                                   "DROPDOWN", "MULTI_SELECT_DROPDOWN"}
          /\ DetailDone(Detail(Property, FALSE, <<>>), <<>>)
    /\ UNCHANGED runtimeOutput
    /\ Idle


(***************************************************************************)
(* The model call of a level, its recovery, the reconciliation and the    *)
(* merge.                                                                  *)
(***************************************************************************)
NoObjectGenerated == Err("NoObjectGeneratedError", "No object generated")

Failure(error, cause, hasText, text) ==
    [set |-> TRUE, level |-> Depth, error |-> error, cause |-> cause,
     text |-> text, hasText |-> hasText, recovered |-> FALSE,
     output |-> [isObj |-> FALSE, obj |-> EmptyObject]]

\* the objects a fenced text can hold: nothing checks them against the schema
RecoveredObjects(fill) ==
    LET conforming == CHOOSE out \in ConformingOutputs(fill) : TRUE
        intruders == {[k \in {"auth"} |-> JStr(<<"x">>)]}
                     \cup {[k \in {name} |-> JStr(<<"x">>)] : name \in DOMAIN result}
    IN {conforming, EmptyObject} \cup {Spread(conforming, i) : i \in intruders}

\* the rejections of generateText
ModelFailures(fill) ==
    LET some == CHOOSE out \in ConformingOutputs(fill) : TRUE IN
    { Failure(NoObjectGenerated, "JSONParseError", TRUE, <<FenceJson, JsonObject(obj), Fence>>) :
        obj \in RecoveredObjects(fill) }
    \cup
    { Failure(NoObjectGenerated, "JSONParseError", TRUE, text) :
        text \in { <<Junk>>,
                   <<FenceJson, Junk, Fence>>,
                   <<FenceJson, JsonNull, Fence>>,
                   <<FenceJson, JsonObject(some), Fence, FenceJson, JsonObject(some), Fence>>,
                   <<FenceJson, JsonObject(some), Fence, Junk>>,
                   <<Junk, FenceJson, JsonObject(some), Fence>> } }
    \cup
    { Failure(NoObjectGenerated, "JSONParseError", FALSE, <<>>),
      Failure(NoObjectGenerated, "TypeValidationError", TRUE,
              <<FenceJson, JsonObject(some), Fence>>),
      Failure(Err("APICallError", "rate limited"), "", FALSE, <<>>) }

\* the options matchDropdownValue is applied with for a key of the output:
\* those of the detail of that name, when it has a non-empty list
OptionsFor(details, name) ==
    LET i == FindIndex(details,
                LAMBDA d : d.name = name /\ d.hasOptions /\ Len(d.options) > 0)
    IN IF i = 0 THEN <<>> ELSE details[i].options

\* extracted after the reconciliation loop
Reconciled(extracted, details) ==
    [k \in DOMAIN extracted |-> matchDropdownValue(extracted[k], OptionsFor(details, k))]

\* result = { ...result, ...extracted }
Merged(acc, extracted) == Spread(acc, extracted)

\* the loop `detail.name in extracted` on an output that is no object
InThrows(details) ==
    \E i \in 1..Len(details) : details[i].hasOptions /\ Len(details[i].options) > 0

\* the rest of the loop body once generateText has given an output
MergeOutput(output, failure) ==
    IF ~output.isObj /\ InThrows(propertyDetails)
    THEN /\ Throws(Err("TypeError", "Cannot use 'in' operator"))
         /\ log' = Append(log, Event("generate", ""))
         /\ modelFailure' = failure
    ELSE /\ result' = IF output.isObj
                      THEN Merged(result, Reconciled(output.obj, propertyDetails))
                      ELSE result
         /\ levelIdx' = levelIdx + 1
         /\ pc' = "level"
         /\ propertyToFill' = EmptyObject
         /\ propertyDetails' = <<>>
         /\ log' = log \o <<Event("generate", ""),
                            [e |-> "merge", level |-> Depth, prop |-> "",
                             input |-> IF output.isObj
                                       THEN Reconciled(output.obj, propertyDetails)
                                       ELSE EmptyObject,
                             raw |-> IF output.isObj THEN output.obj ELSE EmptyObject]>>
         /\ modelFailure' = failure
         /\ UNCHANGED <<operation, depthToPropertyMap, propIdx, runtimeInput,
                        thrown, response>>

\* generateText resolves with an object of the schema
GenerateObject ==
    /\ pc = "generate"
    /\ \E out \in ConformingOutputs(propertyToFill) :
          MergeOutput([isObj |-> TRUE, obj |-> out], modelFailure)
    /\ UNCHANGED runtimeOutput
    /\ Idle

\* generateText rejects; the catch handler recovers or throws again
GenerateFails ==
    /\ pc = "generate"
    /\ \E failure \in ModelFailures(propertyToFill) :
          IF RecoveryApplies(failure)
          THEN LET stripped == StripFence(StripFenceJson(failure.text)) IN
               IF JSONparseThrows(stripped)
               THEN /\ Throws(Err("SyntaxError", "Unexpected token"))
                    /\ log' = Append(log, Event("generate", ""))
                    /\ modelFailure' = failure
               ELSE MergeOutput(JSONparse(stripped),
                                [failure EXCEPT !.recovered = TRUE,
                                                !.output = JSONparse(stripped)])
          ELSE /\ Throws(failure.error)
               /\ log' = Append(log, Event("generate", ""))
               /\ modelFailure' = failure
    /\ UNCHANGED runtimeOutput
    /\ Idle

(***************************************************************************)
(* The action runtime and the result of execute.                           *)
(***************************************************************************)
StepOutput == JObj(<< <<"ok", JNum(1)>> >>)

\* output.steps[operation.actionName], when the runtime returns
RuntimeSteps ==
    { [status |-> st, output |-> out, errorMessage |-> msg] :
        st \in {"SUCCEEDED", "FAILED", "PAUSED"},
        out \in {StepOutput, JUndefined},
        msg \in {<<>>, <<"boom">>} }

\* (mutant) the auth field is returned as resolved
ReturnedInputWithAuth(resolvedInput) == resolvedInput

\* { ...resolvedInput, auth: 'Redacted' }
ReturnedInput(resolvedInput) == Spread(resolvedInput, [k \in {"auth"} |-> Redacted])

\* (mutant) everything but a succeeded step is a failure
ToolStatusOnlySucceeded(stepStatus) == IF stepStatus = "SUCCEEDED" THEN "SUCCESS" ELSE "FAILED"

\* status === StepOutputStatus.FAILED ? FAILED : SUCCESS
ToolStatus(stepStatus) == IF stepStatus = "FAILED" THEN "FAILED" ELSE "SUCCESS"

\* the runtime returns the steps of the run
RunReturns ==
    /\ pc = "run"
    /\ \E step \in RuntimeSteps :
          /\ response' = [returned |-> TRUE, caught |-> FALSE,
                          status |-> ToolStatus(step.status),
                          output |-> step.output,
                          resolvedInput |-> ReturnedInput(runtimeInput.input),
                          errorMessage |-> step.errorMessage]
          /\ runtimeOutput' = [set |-> TRUE, status |-> step.status,
                               output |-> step.output,
                               errorMessage |-> step.errorMessage]
          /\ pc' = "done"
    /\ UNCHANGED <<operation, depthToPropertyMap, result, levelIdx, propIdx,
                   propertyToFill, propertyDetails, log, modelFailure, runtimeInput, thrown>>
    /\ Idle

\* the runtime throws, an Error or another value, or returns no step of the
\* name of the action, on which the destructuring throws
RunThrows ==
    /\ pc = "run"
    /\ \E error \in { Err("Error", "engine crashed"), NonError("timeout"),
                      Err("TypeError", "Cannot destructure property") } :
          Throws(error)
    /\ UNCHANGED <<log, modelFailure>>
    /\ UNCHANGED runtimeOutput
    /\ Idle

Next ==
    \/ LookupFails
    \/ LookupAndSort
    \/ EnterLevel
    \/ NextProperty
    \/ SynthesizeSchema
    \/ BuildPropertyDetail
    \/ GenerateObject
    \/ GenerateFails
    \/ RunReturns
    \/ RunThrows

Spec == Init /\ [][Next]_vars


(***************************************************************************)
(* Claims on execute and resolveProperties.                                *)
(***************************************************************************)
\* C1: execute never raises: whatever is thrown in the chain (action lookup,
\* dependency sorting, schema synthesis, option loading, model call, runtime)
\* ends in a returned result of status FAILED whose errorMessage carries the
\* message of the error
C1_ExecuteNeverRaises ==
    /\ thrown.set =>
          /\ pc = "done"
          /\ response.returned
          /\ response.status = "FAILED"
          /\ Len(response.errorMessage) = 2
          /\ response.errorMessage[2] = thrown.message
    /\ pc = "done" => response.returned

\* the runtime threw a value that is no Error, after a resolution of two levels
C1_Witness ==
    /\ thrown.set /\ ~thrown.isError
    /\ runtimeInput.set
    /\ response.returned
    /\ Len(depthToPropertyMap) > 1

\* C2: in a run with a predefined auth value, the resolvedInput returned
\* carries the redaction marker and nowhere the auth value, and the input
\* handed to the action runtime carries the auth value
C2_AuthRedactedForCallerRealForRuntime ==
    operation.auth # JUndefined =>
        /\ runtimeInput.set =>
              /\ "auth" \in DOMAIN runtimeInput.input
              /\ runtimeInput.input["auth"] = operation.auth
        /\ response.returned =>
              /\ \A k \in DOMAIN response.resolvedInput :
                    response.resolvedInput[k] # operation.auth
              /\ ~response.caught => response.resolvedInput["auth"] = Redacted

C7_AccumulatorEntriesStable ==
    [][/\ \A k \in DOMAIN result : k \in DOMAIN result' /\ result'[k] = result[k]
       /\ (DOMAIN propertyToFill') \cap (DOMAIN result') = {}]_vars

\* C8: the levels are gone through in ascending depth, one after the other:
\* what is prepared or loaded for a level comes after the merge of every
\* model call of a lower level, and the input of an option loading holds
\* every key merged before, with the value last merged for it
C8_LevelsStrictlySequential ==
    /\ \A i, j \in 1..Len(log) : i < j => log[i].level <= log[j].level
    /\ \A i, j \in 1..Len(log) :
          (i < j /\ log[i].e = "generate" /\ log[j].e \in {"schema", "executeProps"})
          => /\ log[i].level < log[j].level
             /\ \E m \in (i + 1)..(j - 1) :
                   log[m].e = "merge" /\ log[m].level = log[i].level
    /\ \A i, j \in 1..Len(log) :
          (i < j /\ log[i].e = "merge" /\ log[j].e = "executeProps")
          => \A k \in DOMAIN log[i].input :
                /\ k \in DOMAIN log[j].input
                /\ (\A m \in (i + 1)..(j - 1) :
                        log[m].e = "merge" => k \notin DOMAIN log[m].input)
                   => log[j].input[k] = log[i].input[k]

\* options are loaded for the third level after two levels were merged
C8_Witness ==
    \E i, j, m \in 1..Len(log) :
        /\ i < j /\ j < m
        /\ log[i].e = "merge" /\ log[i].level = 0 /\ DOMAIN log[i].input # {}
        /\ log[j].e = "merge" /\ log[j].level = 1 /\ DOMAIN log[j].input # {}
        /\ log[m].e = "executeProps" /\ log[m].level = 2

IsSingleFencedBlock(text) ==
    /\ Len(text) = 3
    /\ text[1] = FenceJson
    /\ text[2].k \in {"{...}", "null"}
    /\ text[3] = Fence

\* C9: when the model call of a level fails, the level goes on only if the
\* failure is an object-parse failure whose text is one fenced json block,
\* and then with the value parsed from the text between the fences; any
\* other failure ends the resolution: nothing is merged, no later level is
\* entered, the runtime is not invoked
C9_RecoveryOnlyForFencedJson ==
    [][(pc = "generate" /\ modelFailure' # modelFailure) =>
        LET f == modelFailure' IN
        IF thrown'.set
        THEN /\ pc' = "done"
             /\ response'.status = "FAILED"
             /\ result' = result
             /\ levelIdx' = levelIdx
             /\ ~runtimeInput'.set
             /\ log'[Len(log')].e = "generate"
        ELSE /\ f.recovered
             /\ f.error.name = "NoObjectGeneratedError"
             /\ f.cause = "JSONParseError"
             /\ f.hasText
             /\ IsSingleFencedBlock(f.text)
             /\ f.output = [isObj |-> f.text[2].isObj, obj |-> f.text[2].v]
             /\ log'[Len(log')].e = "merge"
             /\ f.output.isObj =>
                   /\ DOMAIN f.output.obj \subseteq DOMAIN result'
                   /\ log'[Len(log')].input = Reconciled(f.output.obj, propertyDetails)]_vars

\* a level went on with the object of a fenced text, and the next level was
\* prepared with it
C9_Witness ==
    /\ modelFailure.set /\ modelFailure.recovered
    /\ modelFailure.output.isObj /\ DOMAIN modelFailure.output.obj # {}
    /\ ~thrown.set
    /\ modelFailure.level = 0
    /\ pc = "schema" /\ levelIdx = 2

\* the option list of a property of the level being merged: the one of its
\* detail, or the declared one when no detail was built for it
OptionList(p) ==
    LET i == FindIndex(propertyDetails, LAMBDA d : d.name = p /\ d.hasOptions)
    IN IF i # 0 THEN propertyDetails[i].options
       ELSE PropNamed(operation.action, p).options

\* C11: when a level is merged, every property of the level that is in the
\* output of the model holds, in the accumulator, the value of one of its
\* options if its option list is not empty, and the extracted value as it
\* is otherwise
C11_MergedChoiceIsAnOption ==
    [][(pc = "generate" /\ pc' = "level") =>
        LET merge == log'[Len(log')] IN
        \A i \in 1..Len(Properties) :
            LET p == Properties[i] IN
            p \in DOMAIN merge.raw =>
                /\ p \in DOMAIN result'
                /\ IF Len(OptionList(p)) > 0
                   THEN \E j \in 1..Len(OptionList(p)) :
                            OptionList(p)[j].value = result'[p]
                   ELSE result'[p] = merge.raw[p]]_vars

\* C12: the failure of the option loading of a dropdown property never ends
\* the resolution: the property has the enum of the labels or, without
\* labels, the open union, and the level goes on to its model call
C12_OptionFailureNeverBlocks ==
    /\ (pc = "detail" /\ Property.type = "DROPDOWN") =>
          propertyToFill[Property.name].kind \in {"enum", "union"}
    /\ ~(/\ thrown.set
         /\ Len(log) > 0
         /\ log[Len(log)].e = "executeProps"
         /\ PropNamed(operation.action, log[Len(log)].prop).type
               \in {"DROPDOWN", "MULTI_SELECT_DROPDOWN"})


(***************************************************************************)
(* propertyToSchema on its own: one property of any type, required or     *)
(* not, and what the schema returned accepts.                              *)
(***************************************************************************)
PropertyTypes ==
    {"SHORT_TEXT", "LONG_TEXT", "MARKDOWN", "DATE_TIME", "FILE", "COLOR",
     "DROPDOWN", "STATIC_DROPDOWN", "MULTI_SELECT_DROPDOWN",
     "STATIC_MULTI_SELECT_DROPDOWN", "NUMBER", "ARRAY", "OBJECT", "JSON",
     "DYNAMIC", "CHECKBOX", "CUSTOM"} \cup UnsupportedTypes

\* the types for which propertyToSchema calls pieceHelper.executeProps
LoadingTypes == {"DROPDOWN", "DYNAMIC"}

\* schema.safeParse(v).success
Accepts(schema, v) ==
    \/ schema.nullable /\ v = JNull
    \/ CASE schema.kind = "string" -> v.t = "str"
         [] schema.kind = "enum" ->
              v.t = "str" /\ \E i \in 1..Len(schema.labels) : schema.labels[i] = v.s
         [] schema.kind = "union" -> v.t \in {"str", "num", "obj"}
         [] schema.kind = "arrayUnion" ->
              /\ v.t = "arr"
              /\ \/ \A i \in 1..Len(v.o) : v.o[i][2].t = "str"
                 \/ \A i \in 1..Len(v.o) : v.o[i][2].t = "obj"
         [] schema.kind = "number" -> v.t = "num"
         [] schema.kind = "array" ->
              v.t = "arr" /\ \A i \in 1..Len(v.o) : v.o[i][2].t = "str"
         [] schema.kind = "object" -> v.t = "obj"
         [] schema.kind = "boolean" -> v.t = "bool"
         [] OTHER -> FALSE

InitSchema ==
    /\ sProperty \in { Prop("p", type, required, <<>>, options) :
                          type \in PropertyTypes, required \in BOOLEAN,
                          options \in {<<>>, CurrencyOptions} }
    /\ sLoaded \in LoadOptionsAnswers
    /\ sProperty.type \notin LoadingTypes => sLoaded = NoLoaded
    /\ sSchema = NoSchema
    /\ sThrew = FALSE
    /\ sDone = FALSE
    /\ MatchIdle
    /\ TranscriptIdle
    /\ ExecuteIdle
    /\ SortIdle
    /\ DynamicIdle
    /\ SyncIdle

\* await propertyToSchema(propertyName, property, operation, resolvedInput)
PropertyToSchema ==
    /\ ~sDone
    /\ sDone' = TRUE
    /\ IF \/ sProperty.type \in UnsupportedTypes
          \/ sProperty.type = "DYNAMIC" /\ sLoaded.threw
       THEN /\ sThrew' = TRUE
            /\ UNCHANGED sSchema
       ELSE /\ sSchema' = propertyToSchema(sProperty, loadDropdownLabels(sProperty, sLoaded))
            /\ UNCHANGED sThrew
    /\ UNCHANGED <<sProperty, sLoaded>>
    /\ UNCHANGED matchVars
    /\ UNCHANGED transcriptVars
    /\ UNCHANGED executeVars
    /\ UNCHANGED sortVars
    /\ UNCHANGED dynamicVars
    /\ UNCHANGED syncVars

NextSchema == PropertyToSchema

SpecSchema == InitSchema /\ [][NextSchema]_vars

\* C13: the schema of a property of a supported type accepts null exactly
\* when the property is not required; the schema of a NUMBER accepts 42 and
\* rejects the string "42"
C13_NullableIffNotRequired ==
    (sDone /\ ~sThrew) =>
        /\ Accepts(sSchema, JNull) <=> ~sProperty.required
        /\ sProperty.type = "NUMBER" =>
              /\ Accepts(sSchema, JNum(42))
              /\ ~Accepts(sSchema, JStr(<<"4", "2">>))


(***************************************************************************)
(* Further claims on execute and resolveProperties.                        *)
(***************************************************************************)
AuthOnlyTypes == {"BASIC_AUTH", "OAUTH2", "CUSTOM_AUTH", "SECRET_TEXT"}

\* C14: a property of an auth-only type is skipped: no schema is asked for
\* it, it is in the schema of no level, and no resolution fails on it
C14_AuthOnlySkipped ==
    /\ \A i \in 1..Len(log) :
          log[i].e = "schema" =>
              PropNamed(operation.action, log[i].prop).type \notin AuthOnlyTypes
    /\ \A k \in DOMAIN propertyToFill :
          PropNamed(operation.action, k).type \notin AuthOnlyTypes
    /\ ~(thrown.set /\ thrown.message = "Unsupported property type")


(***************************************************************************)
(* tsort.sortPropertiesByDependencies on its own: every dependency graph  *)
(* on three properties, and the declarations of the actions above.        *)
(***************************************************************************)
RefreshLists ==
    { <<>>, <<"a">>, <<"b">>, <<"c">>, <<"a", "b">>, <<"a", "c">>, <<"b", "c">>,
      <<"a", "b", "c">> }

SortInputs ==
    { << Prop("a", "DYNAMIC", TRUE, ra, <<>>),
         Prop("b", "DYNAMIC", TRUE, rb, <<>>),
         Prop("c", "DYNAMIC", TRUE, rc, <<>>) >> :
        ra \in RefreshLists, rb \in RefreshLists, rc \in RefreshLists }
    \cup {CallFlowProps, TransferProps, ChainProps}

InitSort ==
    /\ tProps \in SortInputs
    /\ tMap = <<>>
    /\ tThrew = FALSE
    /\ tDone = FALSE
    /\ MatchIdle
    /\ TranscriptIdle
    /\ ExecuteIdle
    /\ SchemaIdle
    /\ DynamicIdle
    /\ SyncIdle

\* tsort.sortPropertiesByDependencies(props)
Sort ==
    /\ ~tDone
    /\ tDone' = TRUE
    /\ IF IsCyclic(tProps)
       THEN /\ tThrew' = TRUE
            /\ UNCHANGED tMap
       ELSE /\ tMap' = sortPropertiesByDependencies(tProps)
            /\ UNCHANGED tThrew
    /\ UNCHANGED tProps
    /\ UNCHANGED matchVars
    /\ UNCHANGED transcriptVars
    /\ UNCHANGED executeVars
    /\ UNCHANGED schemaVars
    /\ UNCHANGED dynamicVars
    /\ UNCHANGED syncVars

NextSort == Sort

SpecSort == InitSort /\ [][NextSort]_vars

\* the declared properties a property refreshes on
DepsOf(props, name) ==
    {PropNamed(props, name).refreshers[i] :
        i \in 1..Len(PropNamed(props, name).refreshers)} \cap PropNames(props)

\* the properties reached from those of S in at most k dependency steps
RECURSIVE ReachFrom(_, _, _)
ReachFrom(props, S, k) ==
    IF k = 0 THEN S
    ELSE ReachFrom(props, S \cup UNION {DepsOf(props, n) : n \in S}, k - 1)

HasCycle(props) ==
    \E n \in PropNames(props) : n \in ReachFrom(props, DepsOf(props, n), Len(props))

\* the places of a property in a level map
PlacesIn(map, name) ==
    {<<d, i>> \in (1..Len(map)) \X (1..Len(tProps)) :
        i <= Len(map[d]) /\ map[d][i] = name}

\* the depth at which a level map holds a property
DepthIn(map, name) == (CHOOSE place \in PlacesIn(map, name) : TRUE)[1] - 1

\* C15: the level map of an acyclic declaration holds every declared
\* property exactly once and nothing else, at depth 0 when it refreshes on
\* nothing and else one below the deepest property it refreshes on; so
\* flowProps of callFlow comes after flow and mode
C15_LevelsFollowDependencies ==
    tDone =>
        /\ tThrew => HasCycle(tProps)
        /\ ~tThrew =>
              /\ \A d \in 1..Len(tMap) : \A i \in 1..Len(tMap[d]) :
                    tMap[d][i] \in PropNames(tProps)
              /\ \A name \in PropNames(tProps) :
                    /\ Cardinality(PlacesIn(tMap, name)) = 1
                    /\ IF DepsOf(tProps, name) = {}
                       THEN DepthIn(tMap, name) = 0
                       ELSE /\ \A dep \in DepsOf(tProps, name) :
                                  DepthIn(tMap, dep) < DepthIn(tMap, name)
                            /\ \E dep \in DepsOf(tProps, name) :
                                  DepthIn(tMap, dep) + 1 = DepthIn(tMap, name)
              /\ tProps = CallFlowProps =>
                    /\ DepthIn(tMap, "flow") < DepthIn(tMap, "flowProps")
                    /\ DepthIn(tMap, "mode") < DepthIn(tMap, "flowProps")

\* the declaration of callFlow is sorted into two levels
C15_Witness ==
    /\ tDone /\ ~tThrew
    /\ tProps = CallFlowProps
    /\ Len(tMap) = 2
    /\ tMap[2] = <<"flowProps">>

\* C16: on a declaration with a dependency cycle execute returns a failure,
\* that of the sorter unless the lookup failed before, and has called
\* neither the option loading nor the model nor the action runtime
C16_CycleFailsBeforeAnyCall ==
    (HasCycle(operation.action) /\ pc # "lookup") =>
        /\ pc = "done"
        /\ response.returned /\ response.caught
        /\ response.status = "FAILED"
        /\ thrown.name \in {"CyclicDependency", "ActionNotFound"}
        /\ log = <<>>
        /\ ~runtimeInput.set
        /\ ~modelFailure.set

\* the sorter failed on a property that refreshes on itself
C16_Witness ==
    /\ operation.action = SelfCyclicProps
    /\ thrown.name = "CyclicDependency"
    /\ response.returned
    /\ response.errorMessage = <<"Tool execution error: ", "cyclic dependency">>


(***************************************************************************)
(* Claims on the calls execute makes.                                      *)
(***************************************************************************)
EventsOf(kinds) == {i \in 1..Len(log) : log[i].e \in kinds}

C18_RequiredPropertiesPresent ==
    runtimeInput.set =>
        \A i \in 1..Len(operation.action) :
            operation.action[i].required =>
                operation.action[i].name \in DOMAIN runtimeInput.input

\* the keys of the accumulator when the level of depth d is entered
AccKeysBefore(d) ==
    DOMAIN Seeded(operation)
    \cup UNION {DOMAIN log[i].input : i \in {j \in EventsOf({"merge"}) : log[j].level < d}}

\* the level of depth d has a property that is neither skipped nor in the
\* accumulator
HasFillable(d) ==
    \E i \in 1..Len(depthToPropertyMap[d + 1]) :
        LET name == depthToPropertyMap[d + 1][i] IN
        /\ PropNamed(operation.action, name).type \notin SkipTypes
        /\ name \notin AccKeysBefore(d)

\* C19: when resolveProperties has returned, it has issued one model call
\* for each level with a property to fill and none for any other level
C19_OneModelCallPerFillableLevel ==
    runtimeInput.set =>
        \A d \in 0..(Len(depthToPropertyMap) - 1) :
            Cardinality({i \in EventsOf({"generate"}) : log[i].level = d})
                = IF HasFillable(d) THEN 1 ELSE 0

\* a resolution of three levels, one of which had nothing to fill
C19_Witness ==
    /\ runtimeInput.set
    /\ Len(depthToPropertyMap) = 3
    /\ Cardinality(EventsOf({"generate"})) = 2
    /\ ~HasFillable(1)


(***************************************************************************)
(* Claims on the markdown blocks of the transcript.                        *)
(***************************************************************************)
\* C20: addMarkdown adds its text to the last block when that is a markdown
\* block and else opens a markdown block holding the text; no other block
\* changes, and an addMarkdown right after an addMarkdown opens no block
C20_MarkdownCoalesces ==
    [][(lastCall'.op = "addMarkdown" /\ calls' = calls + 1) =>
        /\ \E markdown \in MarkdownChunks :
              IF Len(steps) > 0 /\ steps[Len(steps)].type = "MARKDOWN"
              THEN /\ Len(steps') = Len(steps)
                   /\ steps'[Len(steps)].type = "MARKDOWN"
                   /\ steps'[Len(steps)].markdown = steps[Len(steps)].markdown \o markdown
                   /\ \A i \in 1..(Len(steps) - 1) : steps'[i] = steps[i]
              ELSE /\ Len(steps') = Len(steps) + 1
                   /\ steps'[Len(steps')] = [type |-> "MARKDOWN", markdown |-> markdown]
                   /\ \A i \in 1..Len(steps) : steps'[i] = steps[i]
        /\ lastCall.op = "addMarkdown" => Len(steps') = Len(steps)]_vars

\* addMarkdown("a"), addMarkdown("b") after a tool call: the tool call and
\* one markdown block of text "ab"
C20_Witness ==
    /\ calls = 3
    /\ lastCall.op = "addMarkdown"
    /\ Len(steps) = 2
    /\ steps[1].type = "TOOL_CALL"
    /\ steps[2] = [type |-> "MARKDOWN", markdown |-> <<"a", "b">>]


\* ---- startToolCall: which declared tool a called name resolves to ----

\* the declared tools whose name is the called name
ExactTools(toolName) ==
    { i \in DOMAIN AgentTools : AgentTools[i].toolName = toolName }

\* the composite-name tools with registered name R when the called name
\* ends with _R
SuffixTools(toolName) ==
    { i \in DOMAIN AgentTools :
        /\ AgentTools[i].type = "MCP"
        /\ endsWith(toolName, <<"_">> \o AgentTools[i].toolName) }

First(S) == CHOOSE i \in S : \A j \in S : i <= j

\* the declared tool a called name stands for, 0 when there is none
ResolvedTool(toolName) ==
    IF ExactTools(toolName) # {} THEN First(ExactTools(toolName))
    ELSE IF SuffixTools(toolName) # {} THEN First(SuffixTools(toolName))
    ELSE 0

\* the step appended one in-progress tool-call block for this call at the end
AppendedInProgress ==
    /\ Len(steps') = Len(steps) + 1
    /\ SubSeq(steps', 1, Len(steps)) = steps
    /\ steps'[Len(steps')].type = "TOOL_CALL"
    /\ steps'[Len(steps')].status = "in-progress"
    /\ steps'[Len(steps')].toolCallId = lastCall'.id
    /\ steps'[Len(steps')].toolName = lastCall'.arg

\* C21 (as claimed): startToolCall with a name that matches no declared tool
\* fails hard and appends no block; when a tool matches, exactly one new
\* in-progress tool-call block is appended at the end, whatever the previous
\* block was.
C21_MatchedAlwaysAppends ==
    [][lastCall'.op = "startToolCall" =>
        IF ResolvedTool(lastCall'.arg) = 0
        THEN lastCall'.threw /\ steps' = steps
        ELSE ~lastCall'.threw /\ AppendedInProgress]_vars

\* C21 (amended): startToolCall fails hard and appends no block exactly when
\* no declared tool matches the name or the matched tool lacks the field of
\* its kind (pieceMetadata, externalFlowId, serverUrl); otherwise exactly one
\* new in-progress tool-call block is appended at the end, whatever the
\* previous block was, and no other block changes.
C21_UnmatchedOrIncompleteFailsHard ==
    [][lastCall'.op = "startToolCall" =>
        IF \/ ResolvedTool(lastCall'.arg) = 0
           \/ ~AgentTools[ResolvedTool(lastCall'.arg)].hasMeta
        THEN lastCall'.threw /\ steps' = steps
        ELSE ~lastCall'.threw /\ AppendedInProgress]_vars

\* an unmatched name has failed hard after a block of each kind was there,
\* and a matched name has appended a block after a markdown block and after
\* a tool-call block
C21_Witness ==
    /\ Len(steps) = 3
    /\ steps[1].type = "MARKDOWN"
    /\ steps[2].type = "TOOL_CALL"
    /\ steps[3].type = "TOOL_CALL"
    /\ steps[3].status = "in-progress"
    /\ lastCall.op = "startToolCall"
    /\ lastCall.threw
    /\ ResolvedTool(lastCall.arg) = 0

\* C22: startToolCall resolves the called name to the declared tool whose
\* name is exactly equal if one exists, and only otherwise to a composite-name
\* (MCP) tool with registered name R such that the called name ends with _R;
\* the record of a suffix-matched tool has as display name the called name
\* with the _R suffix removed.
C22_ExactThenSuffix ==
    [][(lastCall'.op = "startToolCall" /\ ~lastCall'.threw) =>
        LET name == lastCall'.arg
            block == steps'[Len(steps')]
        IN  IF ExactTools(name) # {}
            THEN \E i \in ExactTools(name) :
                    /\ block.toolCallType = AgentTools[i].type
                    /\ block.toolCallType = "FLOW" => block.displayName = name
            ELSE \E i \in SuffixTools(name) :
                    /\ block.toolCallType = "MCP"
                    /\ block.displayName \o <<"_">> \o AgentTools[i].toolName = name]_vars

\* both tiers have resolved a name: get_zendesk is the name of a declared
\* piece tool and also ends with _zendesk, list_zendesk only the latter
C22_Witness ==
    /\ Len(steps) = 2
    /\ steps[1].type = "TOOL_CALL"
    /\ steps[2].type = "TOOL_CALL"
    /\ steps[1].toolName = <<"get", "_", "zendesk">>
    /\ steps[1].toolCallType = "PIECE"
    /\ SuffixTools(steps[1].toolName) # {}
    /\ steps[2].toolName = <<"list", "_", "zendesk">>
    /\ steps[2].toolCallType = "MCP"
    /\ steps[2].displayName = <<"list">>


\* ---- build(), appendErrorToStructuredOutput, fail ----

\* C23: the transcript returned by build() is immutable: no operation
\* performed on the builder after build() (addMarkdown, startToolCall,
\* finishToolCall, failToolCall, appendError, setStatus) changes the status,
\* steps or structured output of the value build() already returned.
C23_BuiltIsImmutable ==
    [][(built.set /\ lastCall'.op # "build") =>
        /\ built'.status = built.status
        /\ built'.steps = built.steps
        /\ built'.structuredOutput = built.structuredOutput]_vars

\* the part of C23 the code keeps: the returned status is a copy, and the
\* returned structured output no longer follows the builder once
\* setStructuredOutput has given the builder another object
C23_StatusIsACopy ==
    [][(built.set /\ lastCall'.op # "build") =>
        /\ built'.status = built.status
        /\ lastCall'.op \in {"setStatus", "setStructuredOutput", "tick"} =>
              /\ built'.steps = built.steps
              /\ built'.structuredOutput = built.structuredOutput]_vars

\* C24: appendErrorToStructuredOutput is a no-op when structured output was
\* never set; when it is set, the error is appended at the end of its errors
\* list, earlier errors and every other field of the structured output are
\* kept, and status and steps are unchanged.
C24_AppendErrorFrame ==
    [][lastCall'.op = "appendErrorToStructuredOutput" =>
        /\ status' = status
        /\ steps' = steps
        /\ ~lastCall'.threw
        /\ IF ~structuredOutput.set
           THEN structuredOutput' = structuredOutput
           ELSE /\ structuredOutput'.set
                /\ structuredOutput'.answer = structuredOutput.answer
                /\ structuredOutput'.hasErrors
                /\ Len(structuredOutput'.errors) = Len(structuredOutput.errors) + 1
                /\ SubSeq(structuredOutput'.errors, 1, Len(structuredOutput.errors))
                      = structuredOutput.errors
                /\ structuredOutput'.errors[Len(structuredOutput'.errors)] = <<"e">>]_vars

\* an error was appended behind an earlier one, and before that an append
\* on a builder without structured output did nothing
C24_Witness ==
    /\ lastCall.op = "appendErrorToStructuredOutput"
    /\ structuredOutput.set
    /\ structuredOutput.answer = 2
    /\ Len(structuredOutput.errors) = 2
    /\ calls = 3

\* never set: the call has left the builder without structured output
C24_WitnessUnset ==
    /\ lastCall.op = "appendErrorToStructuredOutput"
    /\ ~structuredOutput.set

\* C25: fail sets the transcript status to failed; with a message it also
\* adds the message as markdown text and records it as an appended error,
\* and without a message it changes nothing but the status.
C25_FailSetsStatusAndRecords ==
    [][lastCall'.op = "fail" =>
        /\ status' = "FAILED"
        /\ ~lastCall'.threw
        /\ IF lastCall'.arg = <<>>
           THEN steps' = steps /\ structuredOutput' = structuredOutput
           ELSE /\ Len(steps') > 0
                /\ steps'[Len(steps')].type = "MARKDOWN"
                /\ steps' = AddedMarkdown(steps, lastCall'.arg)
                /\ IF structuredOutput.set
                   THEN structuredOutput'.errors
                          = Append(structuredOutput.errors, lastCall'.arg)
                   ELSE structuredOutput' = structuredOutput]_vars

\* fail with a message on a builder that has structured output and whose
\* last block is a tool call
C25_Witness ==
    /\ lastCall.op = "fail"
    /\ lastCall.arg # <<>>
    /\ status = "FAILED"
    /\ Len(steps) = 2
    /\ steps[1].type = "TOOL_CALL"
    /\ steps[2] = [type |-> "MARKDOWN", markdown |-> lastCall.arg]
    /\ structuredOutput.set
    /\ structuredOutput.errors = <<lastCall.arg>>


\* ---- the result of execute when the runtime returns ----

\* C26: when the runtime returns normally, the status of the result of
\* execute is FAILED exactly when the status of the runtime's step is FAILED
\* and SUCCESS for every other step status; output and errorMessage are the
\* runtime's values for the step named after the action.
C26_StatusFollowsRuntime ==
    (pc = "done" /\ runtimeOutput.set) =>
        /\ response.returned
        /\ ~response.caught
        /\ response.status = "FAILED" <=> runtimeOutput.status = "FAILED"
        /\ response.status = "SUCCESS" <=> runtimeOutput.status # "FAILED"
        /\ response.output = runtimeOutput.output
        /\ response.errorMessage = runtimeOutput.errorMessage

\* the runtime has returned a paused step with an error message: neither
\* failed nor succeeded, and execute answers SUCCESS
C26_Witness ==
    /\ pc = "done"
    /\ runtimeOutput.set
    /\ runtimeOutput.status = "PAUSED"
    /\ runtimeOutput.errorMessage = <<"boom">>
    /\ response.status = "SUCCESS"
    /\ response.errorMessage = <<"boom">>



(***************************************************************************)
(* propertyToSchema on a DYNAMIC, OBJECT or JSON property, with            *)
(* buildDynamicSchema and tryBuildSchemaFromDefault.  An object schema is *)
(* [kind, labels, nullable, fields, hint]: fields is the shape handed to  *)
(* z.object, in insertion order, each a pair <<key, schema>> (empty for   *)
(* z.object({})), hint the default value that describe() attaches as the  *)
(* expected structure.  Every object schema built here is loose.          *)
(***************************************************************************)
MaxSubProps == 2

DSchema(kind, nullable, fields, hint) ==
    [kind |-> kind, labels |-> <<>>, nullable |-> nullable, fields |-> fields, hint |-> hint]

\* a schema of propertyToSchema, which has no fields and no hint
Shaped(schema) ==
    [kind |-> schema.kind, labels |-> schema.labels, nullable |-> schema.nullable,
     fields |-> <<>>, hint |-> JUndefined]

\* null, as tryBuildSchemaFromDefault returns it
NoDSchema == DSchema("", FALSE, <<>>, JUndefined)

\* z.object({}).loose()
OpenObject == DSchema("object", FALSE, <<>>, JUndefined)

\* typeof v === 'object' && v !== null
IsObjectValue(v) == v.t \in {"obj", "arr"}

\* v != null
NotNil(v) == v.t \notin {"null", "undef"}

\* a field definition of an object-schema descriptor
FieldDef(type) == JObj(<< <<"type", JStr(<<type>>)>> >>)

\* { type: 'object', properties: {...}, required: ['qty'] }
OrderDescriptor ==
    JObj(<< <<"type", JStr(<<"object">>)>>,
            <<"properties", JObj(<< <<"qty", FieldDef("integer")>>,
                                    <<"paid", FieldDef("boolean")>>,
                                    <<"tags", FieldDef("array")>>,
                                    <<"note", JObj(<<>>)>> >>)>>,
            <<"required", JArr(<< JStr(<<"qty">>), JStr(<<"note">>) >>)>> >>)

\* a descriptor without a required list
PriceDescriptor ==
    JObj(<< <<"type", JStr(<<"object">>)>>,
            <<"properties", JObj(<< <<"price", FieldDef("number")>> >>)>> >>)

\* the defaultValue of a declaration: none, a string, an object that is no
\* descriptor, an object of type object without properties, a descriptor
DefaultValues ==
    { JUndefined,
      JStr(<<"{a:1}">>),
      JObj(<< <<"a", JNum(1)>> >>),
      JObj(<< <<"type", JStr(<<"object">>)>> >>),
      OrderDescriptor,
      PriceDescriptor }

\* (mutant) every field of the descriptor becomes a string
FieldSchemaAllStrings(fieldDef, required) ==
    DSchema("string", ~required, <<>>, JUndefined)

\* the schema of one field of the descriptor
FieldSchema(fieldDef, required) ==
    LET type == Get(fieldDef, "type")
        kind == IF type \in {JStr(<<"number">>), JStr(<<"integer">>)} THEN "number"
                ELSE IF type = JStr(<<"boolean">>) THEN "boolean"
                ELSE IF type = JStr(<<"array">>) THEN "unknownArray"
                ELSE "string"
    IN DSchema(kind, ~required, <<>>, JUndefined)

tryBuildSchemaFromDefault(defaultValue) ==
    IF ~IsObjectValue(defaultValue) THEN NoDSchema
    ELSE IF \/ Get(defaultValue, "type") # JStr(<<"object">>)
            \/ ~IsObjectValue(Get(defaultValue, "properties"))
    THEN NoDSchema
    ELSE LET properties == Get(defaultValue, "properties")
             required == Get(defaultValue, "required")
             requiredFields ==
                 IF required.t = "arr"
                 THEN {required.o[i][2] : i \in 1..Len(required.o)}
                 ELSE {}
         IN DSchema("object", FALSE,
                    [i \in 1..Len(properties.o) |->
                        <<properties.o[i][1],
                          FieldSchema(properties.o[i][2],
                                      JStr(<<properties.o[i][1]>>) \in requiredFields)>>],
                    JUndefined)

\* a sub-declaration as executeProps answers it
Declaration(type, required, defaultValue) ==
    JObj(<< <<"type", JStr(<<type>>)>>,
            <<"required", JBool(required)>>,
            <<"defaultValue", defaultValue>> >>)

\* the values of response.options: malformed ones (null, an object without
\* type) and declarations of supported and unsupported types
SubDeclarations ==
    { JNull,
      JObj(<< <<"displayName", JStr(<<"x">>)>> >>),
      Declaration("NUMBER", TRUE, JUndefined),
      Declaration("SHORT_TEXT", FALSE, JUndefined),
      Declaration("SECRET_TEXT", TRUE, JUndefined),
      Declaration("OBJECT", FALSE, OrderDescriptor),
      Declaration("JSON", TRUE, JStr(<<"{a:1}">>)),
      Declaration("OBJECT", TRUE, JUndefined) }

\* response.options: missing, { disabled: true }, or up to MaxSubProps
\* sub-declarations under the keys 1, 2, ...
DynamicResponses ==
    { JUndefined, JObj(<< <<"disabled", JBool(TRUE)>> >>) }
    \cup { JObj([i \in 1..n |-> <<DigitChar(i), vs[i]>>]) :
             n \in 0..MaxSubProps, vs \in [1..MaxSubProps -> SubDeclarations] }

\* !value || typeof value !== 'object' || !('type' in value)
Malformed(value) == ~IsObjectValue(value) \/ ~HasKey(value, "type")

\* the sub-declaration read as a property
AsProperty(key, value) ==
    Prop(key, Get(value, "type").s[1], Get(value, "required") = JBool(TRUE), <<>>, <<>>)

\* the schema buildDynamicSchema stores under a key
SubSchema(key, value) ==
    LET schema == Shaped(propertyToSchema(AsProperty(key, value), <<>>))
        defaultValue == Get(value, "defaultValue")
        schemaFromDefault == tryBuildSchemaFromDefault(defaultValue)
    IN  IF NotNil(defaultValue) /\ AsProperty(key, value).type \in {"OBJECT", "JSON"}
        THEN IF schemaFromDefault # NoDSchema
             THEN schemaFromDefault
             ELSE [schema EXCEPT !.hint = defaultValue]
        ELSE schema

\* !dynamicProperties || typeof dynamicProperties !== 'object'
\*   || 'disabled' in dynamicProperties
Undiscovered(options) == ~IsObjectValue(options) \/ HasKey(options, "disabled")

\* propertyToSchema throws inside the loop of buildDynamicSchema
buildDynamicSchemaThrows(options) ==
    /\ ~Undiscovered(options)
    /\ \E i \in 1..Len(options.o) :
          /\ ~Malformed(options.o[i][2])
          /\ AsProperty(options.o[i][1], options.o[i][2]).type \in UnsupportedTypes

\* (mutant) a malformed sub-declaration gets a string schema
buildDynamicSchemaKeepsMalformed(options) ==
    IF Undiscovered(options) THEN OpenObject
    ELSE DSchema("object", FALSE,
                 [i \in 1..Len(options.o) |->
                    <<options.o[i][1],
                      IF Malformed(options.o[i][2])
                      THEN DSchema("string", FALSE, <<>>, JUndefined)
                      ELSE SubSchema(options.o[i][1], options.o[i][2])>>],
                 JUndefined)

buildDynamicSchema(options) ==
    LET RECURSIVE Walk(_)
        Walk(entries) ==
            IF entries = <<>> THEN <<>>
            ELSE IF Malformed(Head(entries)[2]) THEN Walk(Tail(entries))
            ELSE << <<Head(entries)[1], SubSchema(Head(entries)[1], Head(entries)[2])>> >>
                    \o Walk(Tail(entries))
    IN  IF Undiscovered(options) THEN OpenObject
        ELSE DSchema("object", FALSE, Walk(options.o), JUndefined)

\* a property declaration with its defaultValue
WithDefault(property, defaultValue) ==
    [name |-> property.name, type |-> property.type, required |-> property.required,
     refreshers |-> property.refreshers, options |-> property.options,
     defaultValue |-> defaultValue]

InitDynamic ==
    /\ dProperty \in { WithDefault(Prop("p", type, required, <<>>, <<>>), defaultValue) :
                          type \in {"DYNAMIC", "OBJECT", "JSON"}, required \in BOOLEAN,
                          defaultValue \in DefaultValues }
    /\ dOptions \in DynamicResponses
    /\ dProperty.type = "DYNAMIC" => dProperty.defaultValue = JUndefined
    /\ dProperty.type # "DYNAMIC" => dOptions = JUndefined
    /\ dSchema = NoDSchema
    /\ dThrew = FALSE
    /\ dDone = FALSE
    /\ MatchIdle
    /\ TranscriptIdle
    /\ ExecuteIdle
    /\ SchemaIdle
    /\ SortIdle
    /\ SyncIdle

DynamicFrame ==
    /\ UNCHANGED <<dProperty, dOptions>>
    /\ UNCHANGED matchVars
    /\ UNCHANGED transcriptVars
    /\ UNCHANGED executeVars
    /\ UNCHANGED schemaVars
    /\ UNCHANGED sortVars
    /\ UNCHANGED syncVars

\* propertyToSchema on a DYNAMIC property: buildDynamicSchema, then
\* describe and nullable
DynamicToSchema ==
    /\ ~dDone
    /\ dProperty.type = "DYNAMIC"
    /\ dDone' = TRUE
    /\ IF buildDynamicSchemaThrows(dOptions)
       THEN /\ dThrew' = TRUE
            /\ UNCHANGED dSchema
       ELSE /\ dSchema' = [buildDynamicSchema(dOptions) EXCEPT !.nullable = ~dProperty.required]
            /\ UNCHANGED dThrew
    /\ DynamicFrame

\* pieceHelper.executeProps rejects inside buildDynamicSchema
DiscoveryFails ==
    /\ ~dDone
    /\ dProperty.type = "DYNAMIC"
    /\ dOptions = JUndefined
    /\ dDone' = TRUE
    /\ dThrew' = TRUE
    /\ UNCHANGED dSchema
    /\ DynamicFrame

\* propertyToSchema on an OBJECT or JSON property
ObjectToSchema ==
    /\ ~dDone
    /\ dProperty.type \in {"OBJECT", "JSON"}
    /\ dDone' = TRUE
    /\ dSchema' = Shaped(propertyToSchema(dProperty, <<>>))
    /\ UNCHANGED dThrew
    /\ DynamicFrame

NextDynamic ==
    \/ DynamicToSchema
    \/ DiscoveryFails
    \/ ObjectToSchema

SpecDynamic == InitDynamic /\ [][NextDynamic]_vars


\* the sub-declarations the schema is to be built from: those neither
\* malformed nor of an unsupported type
Remaining(options) ==
    { i \in 1..Len(options.o) :
        /\ ~Malformed(options.o[i][2])
        /\ Get(options.o[i][2], "type").s[1] \notin UnsupportedTypes }

FieldKeys(schema) == { schema.fields[i][1] : i \in 1..Len(schema.fields) }

\* C27: when building the schema of a dynamic property, a discovered
\* sub-declaration that is malformed or of an unsupported type is skipped and
\* the schema is still built from the remaining sub-properties; a disabled or
\* missing discovery result yields the open object schema.
C27_BadSubDeclarationsSkipped ==
    (dDone /\ dProperty.type = "DYNAMIC"
           /\ (dOptions # JUndefined \/ ~dThrew)) =>
        /\ ~dThrew
        /\ dSchema.kind = "object"
        /\ IF Undiscovered(dOptions)
           THEN dSchema.fields = <<>>
           ELSE FieldKeys(dSchema) = { dOptions.o[i][1] : i \in Remaining(dOptions) }

\* the part of C27 the code keeps: without a sub-declaration of an
\* unsupported type the malformed ones are skipped and the others kept, and
\* a disabled or missing result yields the open object schema
C27_MalformedSkipped ==
    (dDone /\ dProperty.type = "DYNAMIC" /\ ~dThrew) =>
        /\ dSchema.kind = "object"
        /\ IF Undiscovered(dOptions)
           THEN dSchema.fields = <<>>
           ELSE /\ FieldKeys(dSchema) = { dOptions.o[i][1] : i \in Remaining(dOptions) }
                /\ \A i \in 1..Len(dOptions.o) :
                      Get(dOptions.o[i][2], "type").s # <<"SECRET_TEXT">>

\* what the descriptor says of a field: its kind and whether it is required
DescribedKind(descriptor, i) ==
    LET type == Get(Get(descriptor, "properties").o[i][2], "type").s IN
    CASE type \in {<<"number">>, <<"integer">>} -> "number"
      [] type = <<"boolean">> -> "boolean"
      [] type = <<"array">> -> "unknownArray"
      [] OTHER -> "string"

DescribedRequired(descriptor, i) ==
    LET required == Get(descriptor, "required") IN
    \E j \in 1..Len(required.o) :
        required.o[j][2].s = <<Get(descriptor, "properties").o[i][1]>>

\* { type: 'object', properties: {...} }
IsDescriptor(v) ==
    /\ v.t = "obj"
    /\ Get(v, "type") = JStr(<<"object">>)
    /\ Get(v, "properties").t = "obj"

\* the schema is the one the descriptor describes, field by field
FollowsDescriptor(schema, descriptor) ==
    LET properties == Get(descriptor, "properties") IN
    /\ schema.kind = "object"
    /\ Len(schema.fields) = Len(properties.o)
    /\ \A i \in 1..Len(properties.o) :
          /\ schema.fields[i][1] = properties.o[i][1]
          /\ schema.fields[i][2].kind = DescribedKind(descriptor, i)
          /\ schema.fields[i][2].nullable = ~DescribedRequired(descriptor, i)

\* C28: for an Object or JSON property whose default value is an
\* object-schema descriptor, the synthesized schema is derived from it field
\* by field (number/integer to number, boolean to boolean, array to
\* array-of-unknown, anything else to string; fields listed as required stay
\* required, the others become nullable); for any other default the schema
\* is the open object schema.
C28_DescriptorDefaultGivesFields ==
    (dDone /\ ~dThrew /\ dProperty.type \in {"OBJECT", "JSON"}) =>
        IF IsDescriptor(dProperty.defaultValue)
        THEN FollowsDescriptor(dSchema, dProperty.defaultValue)
        ELSE dSchema.kind = "object" /\ dSchema.fields = <<>>

\* the part of C28 the code keeps: an Object or JSON sub-declaration of a
\* dynamic property follows its descriptor default, and is the open object
\* schema for any other default
C28_SubDeclarationFollowsDefault ==
    (dDone /\ ~dThrew /\ dProperty.type = "DYNAMIC" /\ ~Undiscovered(dOptions)) =>
        \A i \in 1..Len(dSchema.fields) :
            LET key == dSchema.fields[i][1]
                value == Get(dOptions, key)
            IN  Get(value, "type").s[1] \in {"OBJECT", "JSON"} =>
                    IF IsDescriptor(Get(value, "defaultValue"))
                    THEN FollowsDescriptor(dSchema.fields[i][2], Get(value, "defaultValue"))
                    ELSE /\ dSchema.fields[i][2].kind = "object"
                         /\ dSchema.fields[i][2].fields = <<>>

\* a dynamic property has an Object sub-declaration with a descriptor default
C28_SubDeclarationWitness ==
    /\ dDone
    /\ ~dThrew
    /\ dProperty.type = "DYNAMIC"
    /\ Len(dSchema.fields) = 2
    /\ Len(dSchema.fields[2][2].fields) = 4



(***************************************************************************)
(* pieceSyncService.sync: the mode test, the listing of the local and the *)
(* cloud pieces, installNewPieces in batches, deletePiecesIfNotOnCloud    *)
(* and the refresh of the local piece cache.  sync is called by setup and *)
(* by the handler of the PIECES_SYNC job; nothing keeps the two calls     *)
(* apart, so both may be under way at once.                                *)
(***************************************************************************)
batchSize == 5
MaxPieces == 6

\* the calls of sync: setup's own and the job handler's
Runs == {"setup", "job"}

\* newPiecesToFetch.length
NewPieceCounts == {0, 2, MaxPieces}

NoRun == [pc |-> "idle", n |-> 0, done |-> 0, requests |-> <<>>, caught |-> FALSE,
          installed |-> FALSE, deleted |-> FALSE, refreshes |-> 0]

\* (mutant) sync does not look at the mode
SyncEnabledAlways == TRUE

\* syncMode === PieceSyncMode.OFFICIAL_AUTO
SyncEnabled == syncMode = "OFFICIAL_AUTO"

Min(a, b) == IF a < b THEN a ELSE b

\* (mutant) every piece left is fetched at once
CurrentBatchAll(done, n) == (done + 1)..n

\* newPiecesToFetch.slice(done, done + batchSize), as positions from 1
CurrentBatch(done, n) == (done + 1)..Min(done + batchSize, n)

\* currentBatch.map(async (piece) => ...): every request of the batch is issued
Issued(requests, done, n) ==
    [i \in 1..n |-> IF i \in CurrentBatch(done, n) THEN "pending" ELSE requests[i]]

\* the catch block of sync: log.error, and sync returns
Caught(run) == [run EXCEPT !.pc = "returned", !.caught = TRUE]

InitSync ==
    /\ syncMode \in {"OFFICIAL_AUTO", "NONE"}
    /\ syncRuns = [r \in Runs |-> NoRun]
    /\ ApiIdle
    /\ MatchIdle
    /\ TranscriptIdle
    /\ ExecuteIdle
    /\ SchemaIdle
    /\ SortIdle
    /\ DynamicIdle

SyncFrame ==
    /\ UNCHANGED syncMode
    /\ UNCHANGED apiVars
    /\ UNCHANGED matchVars
    /\ UNCHANGED transcriptVars
    /\ UNCHANGED executeVars
    /\ UNCHANGED schemaVars
    /\ UNCHANGED sortVars
    /\ UNCHANGED dynamicVars

\* sync() is called: the mode test, then the two listings are awaited
SyncStart ==
    /\ \E r \in Runs :
          /\ syncRuns[r].pc = "idle"
          /\ syncRuns' = [syncRuns EXCEPT ![r].pc =
                            IF SyncEnabled THEN "list" ELSE "returned"]
    /\ SyncFrame

\* pieceRepos().find or listCloudPieces rejects
ListFails ==
    /\ \E r \in Runs :
          /\ syncRuns[r].pc = "list"
          /\ syncRuns' = [syncRuns EXCEPT ![r] = Caught(@)]
    /\ SyncFrame

\* both listings answer: installNewPieces starts and issues its first batch,
\* or returns at once when there is nothing to fetch
ListReturns ==
    /\ \E r \in Runs, n \in NewPieceCounts :
          /\ syncRuns[r].pc = "list"
          /\ syncRuns' = [syncRuns EXCEPT ![r] =
                [@ EXCEPT !.n = n,
                          !.requests = Issued([i \in 1..n |-> "waiting"], 0, n),
                          !.pc = IF n = 0 THEN "delete" ELSE "batch",
                          !.installed = (n = 0)]]
    /\ SyncFrame

\* a request ends without rejecting: the response is not ok and is logged,
\* or the metadata is read and created.  It may be one of a batch whose
\* Promise.all has rejected already.
RequestCompletes ==
    /\ \E r \in Runs :
          \E i \in 1..syncRuns[r].n :
             /\ syncRuns[r].requests[i] = "pending"
             /\ syncRuns' = [syncRuns EXCEPT ![r].requests[i] = "done"]
    /\ SyncFrame

\* fetch, response.json or create rejects: Promise.all rejects at once,
\* installNewPieces throws into the catch of sync; the other requests of the
\* batch stay under way
RequestRejects ==
    /\ \E r \in Runs :
          \E i \in 1..syncRuns[r].n :
             /\ syncRuns[r].requests[i] = "pending"
             /\ syncRuns' = [syncRuns EXCEPT ![r] =
                   IF @.pc = "batch"
                   THEN Caught([@ EXCEPT !.requests[i] = "done"])
                   ELSE [@ EXCEPT !.requests[i] = "done"]]
    /\ SyncFrame

\* Promise.all of the current batch resolves: done += batchSize, and the
\* loop issues the next batch or installNewPieces returns and
\* deletePiecesIfNotOnCloud is awaited
BatchCompletes ==
    /\ \E r \in Runs :
          LET run == syncRuns[r]
              done == run.done + batchSize
          IN  /\ run.pc = "batch"
              /\ \A i \in CurrentBatch(run.done, run.n) : run.requests[i] = "done"
              /\ syncRuns' = [syncRuns EXCEPT ![r] =
                    IF done < run.n
                    THEN [@ EXCEPT !.done = done,
                                   !.requests = Issued(run.requests, done, run.n)]
                    ELSE [@ EXCEPT !.done = done, !.pc = "delete", !.installed = TRUE]]
    /\ SyncFrame

\* bulkDelete resolves: the summary is logged and refresh() is called
DeleteReturns ==
    /\ \E r \in Runs :
          /\ syncRuns[r].pc = "delete"
          /\ syncRuns' = [syncRuns EXCEPT ![r] =
                [@ EXCEPT !.deleted = TRUE, !.refreshes = @ + 1, !.pc = "refresh"]]
    /\ SyncFrame

\* bulkDelete rejects
DeleteFails ==
    /\ \E r \in Runs :
          /\ syncRuns[r].pc = "delete"
          /\ syncRuns' = [syncRuns EXCEPT ![r] = Caught(@)]
    /\ SyncFrame

\* refresh() resolves and sync returns
RefreshReturns ==
    /\ \E r \in Runs :
          /\ syncRuns[r].pc = "refresh"
          /\ syncRuns' = [syncRuns EXCEPT ![r].pc = "returned"]
    /\ SyncFrame

\* refresh() rejects
RefreshFails ==
    /\ \E r \in Runs :
          /\ syncRuns[r].pc = "refresh"
          /\ syncRuns' = [syncRuns EXCEPT ![r] = Caught(@)]
    /\ SyncFrame

NextSync ==
    \/ SyncStart
    \/ ListFails
    \/ ListReturns
    \/ RequestCompletes
    \/ RequestRejects
    \/ BatchCompletes
    \/ DeleteReturns
    \/ DeleteFails
    \/ RefreshReturns
    \/ RefreshFails

SpecSync == InitSync /\ [][NextSync]_vars

\* the requests of a call of sync that are under way
Outstanding(r) ==
    { i \in 1..syncRuns[r].n : syncRuns[r].requests[i] = "pending" }

\* the batch a piece falls in
BatchOf(i) == (i - 1) \div batchSize

\* C29: while installNewPieces runs, at most 5 piece-metadata requests of it
\* are outstanding at any time, and a request of the next batch is issued
\* only after every request of the current batch has completed.
C29_AtMostOneBatchOutstanding ==
    \A r \in Runs :
        /\ Cardinality(Outstanding(r)) <= 5
        /\ \A i, j \in 1..syncRuns[r].n :
              (BatchOf(i) < BatchOf(j) /\ syncRuns[r].requests[j] # "waiting")
                  => syncRuns[r].requests[i] = "done"

\* the five requests of the first batch are done and the request of the
\* second batch is under way
C29_Witness ==
    \E r \in Runs :
        /\ syncRuns[r].pc = "batch"
        /\ syncRuns[r].n > 5
        /\ syncRuns[r].done = 5
        /\ Outstanding(r) = 6..syncRuns[r].n

\* C30: the piece cache refresh is triggered by sync: in every sync run it is
\* invoked exactly once and only after both the install phase and the delete
\* phase have completed, and it is not invoked when sync mode is not
\* automatic or when a phase fails, in which case sync still returns without
\* raising.
C30_RefreshOnceAfterBothPhases ==
    \A r \in Runs :
        LET run == syncRuns[r] IN
        /\ run.refreshes <= 1
        /\ run.refreshes = 1 =>
              /\ syncMode = "OFFICIAL_AUTO"
              /\ run.installed
              /\ run.deleted
              /\ \A i \in 1..run.n : run.requests[i] = "done"
        /\ (run.pc = "returned" /\ syncMode = "OFFICIAL_AUTO" /\ ~run.caught) =>
              run.refreshes = 1
        /\ syncMode # "OFFICIAL_AUTO" =>
              /\ run.refreshes = 0
              /\ run.pc \in {"idle", "returned"}
              /\ ~run.caught
        /\ run.caught =>
              /\ run.pc = "returned"
              /\ ~(run.installed /\ run.deleted) => run.refreshes = 0

\* one call of sync has refreshed the cache after fetching two batches and
\* deleting, the other has failed in its install phase and returned without
\* a refresh
C30_Witness ==
    /\ syncRuns["setup"].pc = "returned"
    /\ syncRuns["setup"].refreshes = 1
    /\ syncRuns["setup"].n > 5
    /\ syncRuns["job"].pc = "returned"
    /\ syncRuns["job"].caught
    /\ syncRuns["job"].n > 0
    /\ ~syncRuns["job"].installed
    /\ syncRuns["job"].refreshes = 0



(***************************************************************************)
(* Further claims on the transcript builder.                               *)
(***************************************************************************)
ToolCallBlocks == { i \in 1..Len(steps) : steps[i].type = "TOOL_CALL" }

\* every startToolCall that returned has been followed by a finishToolCall
\* or failToolCall of its id that returned
AllFollowed == \A id \in ToolCallIds : unfinished[id] = 0

\* no two tool-call blocks have the same id
DistinctIds ==
    \A i, j \in ToolCallBlocks : steps[i].toolCallId = steps[j].toolCallId => i = j

\* C31: after any sequence in which every startToolCall has been followed by
\* one finishToolCall or failToolCall with its id, no tool-call block of the
\* transcript is still in-progress, including when two startToolCall calls
\* used the same id.
C31_FollowedMeansCompleted ==
    AllFollowed => \A i \in ToolCallBlocks : steps[i].status # "in-progress"

\* the part of C31 the code keeps: ids used once each
C31_FollowedMeansCompletedDistinctIds ==
    (AllFollowed /\ DistinctIds) =>
        \A i \in ToolCallBlocks : steps[i].status # "in-progress"

\* two tool calls of distinct ids were started and both were followed
C31_DistinctIdsWitness ==
    /\ AllFollowed
    /\ DistinctIds
    /\ Cardinality(ToolCallBlocks) = 2

\* C32: for any interleaving of startToolCall, finishToolCall, failToolCall
\* and addMarkdown over tool calls with distinct ids, finishing or failing
\* one id changes only the block of that id: block count and order, every
\* other block, the status and the structured output are unchanged, and each
\* block ends with the output supplied for its own id.
C32_CloseTouchesOwnBlockOnly ==
    [][(/\ lastCall'.op \in {"finishToolCall", "failToolCall"}
        /\ ~lastCall'.threw
        /\ DistinctIds) =>
          /\ Len(steps') = Len(steps)
          /\ status' = status
          /\ structuredOutput' = structuredOutput
          /\ \A i \in 1..Len(steps) :
                IF steps[i].type = "TOOL_CALL" /\ steps[i].toolCallId = lastCall'.id
                THEN /\ steps'[i].type = "TOOL_CALL"
                     /\ steps'[i].toolCallId = lastCall'.id
                     /\ steps'[i].toolName = steps[i].toolName
                     /\ steps'[i].input = steps[i].input
                     /\ steps'[i].startTime = steps[i].startTime
                     /\ steps'[i].status = "completed"
                     /\ steps'[i].output =
                           IF lastCall'.op = "finishToolCall"
                           THEN lastCall'.output ELSE FailedOutput
                ELSE steps'[i] = steps[i]]_vars

\* two tool calls were started, c1 then c2, and finished the other way
\* round, each with its own output
C32_Witness ==
    /\ Len(steps) = 2
    /\ ToolCallBlocks = {1, 2}
    /\ steps[1].toolCallId = "c1"
    /\ steps[2].toolCallId = "c2"
    /\ steps[1].status = "completed"
    /\ steps[2].status = "completed"
    /\ steps[1].output = JObj(<< <<"r", JNum(1)>> >>)
    /\ steps[2].output = JObj(<< <<"r", JNum(2)>> >>)
    /\ lastCall.op = "finishToolCall"
    /\ lastCall.id = "c1"

\* C37: after any sequence of transcript operations, the steps never contain
\* two adjacent markdown blocks.
C37_NoAdjacentMarkdown ==
    \A i \in 1..(Len(steps) - 1) :
        ~(steps[i].type = "MARKDOWN" /\ steps[i + 1].type = "MARKDOWN")

\* markdown was added twice behind a tool call and behind the markdown
\* before it: the steps are markdown, tool call, markdown
C37_Witness ==
    /\ Len(steps) = 3
    /\ steps[1].type = "MARKDOWN"
    /\ steps[2].type = "TOOL_CALL"
    /\ steps[3].type = "MARKDOWN"
    /\ Len(steps[1].markdown) = 1
    /\ lastCall.op \in {"addMarkdown", "fail"}



(***************************************************************************)
(* The prompt of a level.                                                  *)
(***************************************************************************)
\* JSON.stringify(existingValues, null, 2): the text of each entry under its
\* key; the keys whose value is undefined are left out
StringifiedValues(obj) ==
    [k \in {key \in DOMAIN obj : obj[key] # JUndefined} |-> JSONstringify(obj[k])]

\* buildExistingValuesSection
buildExistingValuesSection(existingValues) ==
    [section |-> "ALREADY FILLED VALUES", values |-> StringifiedValues(existingValues)]

\* constructExtractionPrompt, as the parts the template is filled with; the
\* instruction and the fixed text are the same in every prompt
constructExtractionPrompt(fill, details, existingValues) ==
    [propertyNames |-> DOMAIN fill,
     existingValuesContext |->
        IF DOMAIN existingValues # {}
        THEN buildExistingValuesSection(existingValues)
        ELSE [section |-> "", values |-> EmptyObject],
     propertyDetailsSection |-> details]

\* another auth value
OtherSecret == JStr(<<"o", "t", "h", "e", "r">>)

\* the accumulator of the run that differs only in the predefined auth value
OtherAuthRun(acc) ==
    [k \in DOMAIN acc |->
        IF k = "auth" /\ acc[k] = operation.auth THEN OtherSecret ELSE acc[k]]

\* C33: the prompt sent to the language model does not depend on the auth
\* value: two resolveProperties runs that differ only in the predefined auth
\* value send identical prompts for every level.
C33_PromptIndependentOfAuth ==
    pc = "generate" =>
        constructExtractionPrompt(propertyToFill, propertyDetails, result)
          = constructExtractionPrompt(propertyToFill, propertyDetails, OtherAuthRun(result))

\* the part of C33 the code keeps: without a predefined auth value the
\* prompt holds no auth entry unless an earlier model output brought one
C33_NoAuthNoAuthInPrompt ==
    (pc = "generate" /\ operation.auth = JUndefined /\ ~modelFailure.recovered) =>
        "auth" \notin DOMAIN constructExtractionPrompt(propertyToFill, propertyDetails,
                                                      result).existingValuesContext.values



(***************************************************************************)
(* Claims on the reconciliation of a level: what the model gave for a     *)
(* choice property (the raw entry of the merge event) against what the    *)
(* accumulator holds after the merge.                                      *)
(***************************************************************************)
\* the step merges the output of the model call of a level
MergesLevel == pc = "generate" /\ pc' = "level"

\* the properties of the level the reconciliation loop applies
\* matchDropdownValue to: a detail with a non-empty option list was built
\* and the output has the key
ReconciledProps(raw) ==
    { p \in DOMAIN raw : Len(OptionsFor(propertyDetails, p)) > 0 }

\* C34: when the model returns absence (null) for an optional choice-type
\* property whose option list is non-empty, the accumulator's value for that
\* property is still absence after reconciliation and merge; no option value
\* is invented for it.
C34_AbsenceStaysAbsence ==
    [][MergesLevel =>
        LET raw == log'[Len(log')].raw IN
        \A p \in ReconciledProps(raw) :
            (~PropNamed(operation.action, p).required /\ raw[p] = JNull)
                => result'[p] = JNull]_vars

\* option lists in which no label is the text of the value of another option
NoLabelIsAnotherValue(options) ==
    \A i, j \in 1..Len(options) :
        (i # j /\ options[j].value.t = "str") => options[i].label # options[j].value.s

\* the first option of that label, 0 when there is none
OptionOfLabel(options, label) ==
    LET S == { i \in 1..Len(options) : options[i].label = label }
    IN IF S = {} THEN 0 ELSE CHOOSE i \in S : \A j \in S : i <= j

\* C35: when the model's output for a dropdown property is exactly the label
\* of an option, as the label-enumerating schema requires, the reconciled
\* value is the value of that same option, for every option list including
\* lists where one option's label equals another option's value.
C35_LabelGivesItsOwnValue ==
    [][MergesLevel =>
        LET raw == log'[Len(log')].raw IN
        \A p \in ReconciledProps(raw) :
            LET options == OptionsFor(propertyDetails, p) IN
            (/\ PropNamed(operation.action, p).type \in {"DROPDOWN", "STATIC_DROPDOWN"}
             /\ raw[p].t = "str"
             /\ OptionOfLabel(options, raw[p].s) # 0)
                => result'[p] = options[OptionOfLabel(options, raw[p].s)].value]_vars

\* the part of C35 the code keeps: lists in which no label is the value of
\* another option
C35_LabelGivesItsOwnValueNoCross ==
    [][MergesLevel =>
        LET raw == log'[Len(log')].raw IN
        \A p \in ReconciledProps(raw) :
            LET options == OptionsFor(propertyDetails, p) IN
            (/\ PropNamed(operation.action, p).type \in {"DROPDOWN", "STATIC_DROPDOWN"}
             /\ raw[p].t = "str"
             /\ OptionOfLabel(options, raw[p].s) # 0
             /\ NoLabelIsAnotherValue(options))
                => result'[p] = options[OptionOfLabel(options, raw[p].s)].value]_vars

\* a label was given for the loaded dropdown and the accumulator holds the
\* value of its option
C35_NoCrossWitness ==
    /\ "flow" \in DOMAIN result
    /\ result["flow"] = FlowOptions[2].value
    /\ Len(log) > 0
    /\ log[Len(log)].e = "merge"
    /\ log[Len(log)].raw["flow"] = JStr(FlowOptions[2].label)

\* C36: for a multi-select property with a non-empty option list, the value
\* merged into the accumulator after reconciliation is still an array, as
\* its schema (array of string or array of object) requires.
C36_MultiSelectStaysArray ==
    [][MergesLevel =>
        LET raw == log'[Len(log')].raw IN
        \A p \in ReconciledProps(raw) :
            (/\ PropNamed(operation.action, p).type
                   \in {"MULTI_SELECT_DROPDOWN", "STATIC_MULTI_SELECT_DROPDOWN"}
             /\ raw[p].t = "arr")
                => result'[p].t = "arr"]_vars

\* ---------------------------------------------------------------------------
\* managedAuthnController: POST /v1/managed-authn/external-token (SpecAuthn)
\* ---------------------------------------------------------------------------

\* String.prototype.trim over the characters of a string
RECURSIVE trimStart(_)
trimStart(s) ==
    IF s = <<>> THEN s
    ELSE IF s[1] = " " THEN trimStart(Tail(s)) ELSE s

RECURSIVE trimEnd(_)
trimEnd(s) ==
    IF s = <<>> THEN s
    ELSE IF s[Len(s)] = " " THEN trimEnd(SubSeq(s, 1, Len(s) - 1)) ELSE s

trim(s) == trimEnd(trimStart(s))

\* s.indexOf(c): the zero-based position of the first c, or -1
indexOf(s, c) ==
    IF \E i \in 1..Len(s) : s[i] = c
    THEN (CHOOSE i \in 1..Len(s) : s[i] = c /\ \A j \in 1..(i - 1) : s[j] # c) - 1
    ELSE -1

\* s.slice(from, to) and s.slice(from), zero-based, to excluded
slice(s, from, to) == SubSeq(s, from + 1, to)
sliceFrom(s, from) == SubSeq(s, from + 1, Len(s))

\* s.split(sep): the parts between the separators; one empty part for ''
RECURSIVE split(_, _)
split(s, sep) ==
    LET at == indexOf(s, sep)
    IN  IF at = -1 THEN <<s>>
        ELSE <<slice(s, 0, at)>> \o split(sliceFrom(s, at + 1), sep)

\* the for loop of getTokenFromCookie over the trimmed parts
RECURSIVE firstCookie(_, _)
firstCookie(parts, cookieName) ==
    IF parts = <<>> THEN Absent
    ELSE LET part == trim(parts[1])
             eq == indexOf(part, "=")
         IN  IF eq > 0 /\ trim(slice(part, 0, eq)) = trim(cookieName)
             THEN IF trim(sliceFrom(part, eq + 1)) = <<>> THEN Absent
                  ELSE Text(trim(sliceFrom(part, eq + 1)))
             ELSE firstCookie(Tail(parts), cookieName)

getTokenFromCookie(cookieHeader, cookieName) ==
    IF \/ ~cookieHeader.def
       \/ trim(cookieHeader.s) = <<>>
       \/ ~cookieName.def
       \/ trim(cookieName.s) = <<>>
    THEN Absent
    ELSE firstCookie(split(cookieHeader.s, ";"), cookieName.s)

\* the truthiness of a string that may be undefined
Truthy(str) == str.def /\ str.s # <<>>

\* (x ?? '').trim()
OrEmptyTrimmed(str) == IF str.def THEN trim(str.s) ELSE <<>>

\* externalAccessToken, were the body token the fallback of a missing cookie
externalAccessTokenCookieThenBody(cookieName, cookieHeader, bodyToken) ==
    IF Truthy(cookieName) /\ getTokenFromCookie(cookieHeader, cookieName).def
    THEN OrEmptyTrimmed(getTokenFromCookie(cookieHeader, cookieName))
    ELSE OrEmptyTrimmed(bodyToken)

\* const externalAccessToken = cookieName ? cookie token : body token
externalAccessToken(cookieName, cookieHeader, bodyToken) ==
    IF Truthy(cookieName)
    THEN OrEmptyTrimmed(getTokenFromCookie(cookieHeader, cookieName))
    ELSE OrEmptyTrimmed(bodyToken)

\* managedAuthApi.generateApToken: the body it posts
generateApToken(request) ==
    IF request.def /\ trim(request.s) # <<>>
    THEN Text(trim(request.s))
    ELSE Absent

\* system.get(AppSystemProp.EMBED_SESSION_COOKIE_NAME)
CookieNames == {Absent, Text(<<>>), Text(<<" ">>), Text(<<"s">>), Text(<<"s", " ">>)}

\* req.headers.cookie
CookieHeaders ==
    {Absent, Text(<<>>), Text(<<" ">>),
     Text(<<"s", "=", "t">>), Text(<<"s", "=">>), Text(<<"s", "=", " ">>),
     Text(<<" ", "s", " ", "=", " ", "t", " ">>),
     Text(<<"u", "=", "b", ";", " ", "s", "=", "t">>),
     Text(<<"s", "=", ";", "s", "=", "t">>),
     Text(<<"s", "=", "t", ";", "s", "=", "b">>),
     Text(<<"=", "t">>), Text(<<"s">>), Text(<<"u", "=", "t">>),
     Text(<<"s", "=", "t", "=", "b">>)}

\* req.body.externalAccessToken, and the request argument of the client
BodyTokens ==
    {Absent, Text(<<>>), Text(<<" ">>), Text(<<"b">>), Text(<<"t">>),
     Text(<<" ", "b", " ">>)}

InitAuthn ==
    /\ authn \in {[NoAuthn EXCEPT !.cookieName = n] : n \in CookieNames}
    /\ purge = NoPurge
    /\ syncMode = ""
    /\ syncRuns = <<>>
    /\ MatchIdle
    /\ TranscriptIdle
    /\ ExecuteIdle
    /\ SchemaIdle
    /\ SortIdle
    /\ DynamicIdle

AuthnFrame ==
    /\ UNCHANGED <<syncMode, syncRuns, purge>>
    /\ UNCHANGED matchVars
    /\ UNCHANGED transcriptVars
    /\ UNCHANGED executeVars
    /\ UNCHANGED schemaVars
    /\ UNCHANGED sortVars
    /\ UNCHANGED dynamicVars

\* the handler up to the await of managedAuthnService.externalToken
Received(via, cookieHeader, bodyToken) ==
    LET token == externalAccessToken(authn.cookieName, cookieHeader, bodyToken)
    IN  authn' =
            IF token = <<>>
            THEN [authn EXCEPT !.phase = "rejected", !.via = via,
                               !.cookie = cookieHeader, !.body = bodyToken,
                               !.code = "INVALID_BEARER_TOKEN"]
            ELSE [authn EXCEPT !.phase = "calling", !.via = via,
                               !.cookie = cookieHeader, !.body = bodyToken,
                               !.called = TRUE, !.token = token]

\* the UI posts through managedAuthApi.generateApToken
ClientPosts ==
    /\ authn.phase = "idle"
    /\ \E request \in BodyTokens, cookieHeader \in CookieHeaders :
          Received("generateApToken", cookieHeader, generateApToken(request))
    /\ AuthnFrame

\* any other client posts to the public endpoint
DirectPost ==
    /\ authn.phase = "idle"
    /\ \E bodyToken \in BodyTokens, cookieHeader \in CookieHeaders :
          Received("direct", cookieHeader, bodyToken)
    /\ AuthnFrame

\* externalToken resolves: the response is returned
ServiceReturns ==
    /\ authn.phase = "calling"
    /\ authn' = [authn EXCEPT !.phase = "responded"]
    /\ AuthnFrame

\* externalToken rejects with an ActivepiecesError: rethrown as it is
ServiceThrowsActivepiecesError ==
    /\ authn.phase = "calling"
    /\ \E code \in {"AUTHENTICATION", "INVALID_BEARER_TOKEN"} :
          authn' = [authn EXCEPT !.phase = "rejected", !.caught = "ActivepiecesError",
                                 !.code = code]
    /\ AuthnFrame

\* externalToken rejects with an EntityNotFoundError
ServiceThrowsEntityNotFound ==
    /\ authn.phase = "calling"
    /\ authn' = [authn EXCEPT !.phase = "rejected", !.caught = "EntityNotFoundError",
                              !.code = "ENTITY_NOT_FOUND"]
    /\ AuthnFrame

\* externalToken rejects with anything else
ServiceThrowsOther ==
    /\ authn.phase = "calling"
    /\ authn' = [authn EXCEPT !.phase = "rejected", !.caught = "Error",
                              !.code = "INVALID_BEARER_TOKEN"]
    /\ AuthnFrame

NextAuthn ==
    \/ ClientPosts
    \/ DirectPost
    \/ ServiceReturns
    \/ ServiceThrowsActivepiecesError
    \/ ServiceThrowsEntityNotFound
    \/ ServiceThrowsOther

SpecAuthn == InitAuthn /\ [][NextAuthn]_vars

\* C38: when a session cookie name is configured, the token passed to
\* externalToken is the one read from that cookie and never the one of the
\* body, and a request whose cookie is missing or empty is rejected with
\* INVALID_BEARER_TOKEN without calling the service, whatever the body holds;
\* when no cookie name is configured the token passed is the trimmed body token
C38_CookieOnlyWhenConfigured ==
    authn.phase # "idle" =>
        IF Truthy(authn.cookieName)
        THEN LET tokenFromCookie == getTokenFromCookie(authn.cookie, authn.cookieName)
             IN  /\ authn.called =>
                       /\ tokenFromCookie.def
                       /\ authn.token = tokenFromCookie.s
                 /\ ~tokenFromCookie.def =>
                       /\ ~authn.called
                       /\ authn.phase = "rejected"
                       /\ authn.code = "INVALID_BEARER_TOKEN"
        ELSE /\ authn.called =>
                   /\ authn.body.def
                   /\ authn.token = trim(authn.body.s)
             /\ authn.body.def /\ trim(authn.body.s) # <<>> => authn.called

\* a configured cookie name, no such cookie in the header, a token in the
\* body: the request was rejected
C38_Witness ==
    /\ authn.cookieName = Text(<<"s">>)
    /\ authn.cookie = Text(<<"u", "=", "t">>)
    /\ authn.body = Text(<<"b">>)
    /\ authn.phase = "rejected"
    /\ authn.code = "INVALID_BEARER_TOKEN"
    /\ ~authn.called

\* ---------------------------------------------------------------------------
\* deletePiecesIfNotOnCloud as sync() calls it (SpecDelete)
\* ---------------------------------------------------------------------------

\* a piece name is its scope prefix followed by the rest
OfficialPrefix == "@activepieces/piece-"
Scoped(rest) == <<OfficialPrefix, rest>>

\* name.startsWith('@activepieces/piece-') ? name : '@activepieces/piece-' + name
normalizeName(name) ==
    IF name # <<>> /\ name[1] = OfficialPrefix THEN name ELSE <<OfficialPrefix>> \o name

\* new Set(filter.map(normalise))
allowedNames(filter) == {normalizeName(filter[i]) : i \in 1..Len(filter)}

\* the template name:version
pieceKey(piece) == piece.name \o <<":", piece.version>>

filterPiecesByName(pieces, filter) ==
    {piece \in pieces : piece.name \in allowedNames(filter)}

\* piecesToDelete, were the piece type not tested
piecesToDeleteAnyType(dbPieces, cloudPieces, hasFilter, filter) ==
    {piece \in dbPieces :
        \/ hasFilter /\ piece.name \notin allowedNames(filter)
        \/ pieceKey(piece) \notin {pieceKey(cloudPiece) : cloudPiece \in cloudPieces}}

\* const piecesToDelete = dbPieces.filter(...); hasFilter is whether the
\* filter argument was passed
piecesToDelete(dbPieces, cloudPieces, hasFilter, filter) ==
    {piece \in dbPieces :
        IF piece.pieceType # "OFFICIAL" THEN FALSE
        ELSE IF hasFilter /\ piece.name \notin allowedNames(filter) THEN TRUE
        ELSE pieceKey(piece) \notin {pieceKey(cloudPiece) : cloudPiece \in cloudPieces}}

\* the rows of the piece_metadata table a run may find
DbRows ==
    {[name |-> Scoped("slack"), version |-> "1", pieceType |-> "OFFICIAL"],
     [name |-> Scoped("slack"), version |-> "2", pieceType |-> "OFFICIAL"],
     [name |-> Scoped("gmail"), version |-> "1", pieceType |-> "OFFICIAL"],
     [name |-> Scoped("slack"), version |-> "1", pieceType |-> "CUSTOM"],
     [name |-> <<"@acme/piece-", "crm">>, version |-> "1", pieceType |-> "CUSTOM"]}

\* the pieces the cloud registry may list
CloudRows ==
    {[name |-> Scoped("slack"), version |-> "1"],
     [name |-> Scoped("slack"), version |-> "2"],
     [name |-> Scoped("gmail"), version |-> "1"]}

\* the configured piecesFilter
PieceFilters ==
    {<<>>, <<<<"slack">>>>, <<Scoped("gmail")>>, <<<<"gmail">>, Scoped("slack")>>,
     <<<<"zendesk">>>>}

InitDelete ==
    /\ purge \in {[NoPurge EXCEPT !.dbPieces = db, !.allCloudPieces = cloud,
                                  !.piecesFilter = filter] :
                     db \in SUBSET DbRows, cloud \in SUBSET CloudRows,
                     filter \in PieceFilters}
    /\ authn = NoAuthn
    /\ syncMode = ""
    /\ syncRuns = <<>>
    /\ MatchIdle
    /\ TranscriptIdle
    /\ ExecuteIdle
    /\ SchemaIdle
    /\ SortIdle
    /\ DynamicIdle

DeleteFrame ==
    /\ UNCHANGED <<syncMode, syncRuns, authn>>
    /\ UNCHANGED matchVars
    /\ UNCHANGED transcriptVars
    /\ UNCHANGED executeVars
    /\ UNCHANGED schemaVars
    /\ UNCHANGED sortVars
    /\ UNCHANGED dynamicVars

\* what sync() passes to deletePiecesIfNotOnCloud and what that selects
Selected(run) ==
    LET hasFilter == Len(run.piecesFilter) > 0
        cloudPieces == IF hasFilter
                       THEN filterPiecesByName(run.allCloudPieces, run.piecesFilter)
                       ELSE run.allCloudPieces
    IN  piecesToDelete(run.dbPieces, cloudPieces, hasFilter, run.piecesFilter)

\* either listing rejects: the catch block, nothing is deleted
PurgeListFails ==
    /\ purge.phase = "idle"
    /\ purge' = [purge EXCEPT !.phase = "caught"]
    /\ DeleteFrame

\* the listings resolve and bulkDelete resolves for the rows selected;
\* deleted holds the rows of piecesToDelete
PurgeDeletes ==
    /\ purge.phase = "idle"
    /\ purge' = [purge EXCEPT !.phase = "deleted", !.deleted = Selected(purge)]
    /\ DeleteFrame

\* bulkDelete rejects: the catch block, nothing is deleted
PurgeDeleteFails ==
    /\ purge.phase = "idle"
    /\ purge' = [purge EXCEPT !.phase = "delete failed"]
    /\ DeleteFrame

NextDelete ==
    \/ PurgeListFails
    \/ PurgeDeletes
    \/ PurgeDeleteFails

SpecDelete == InitDelete /\ [][NextDelete]_vars

\* the names a filter admits, and the cloud list after filtering
Admitted(run) ==
    {IF Len(run.piecesFilter[i]) = 2 THEN run.piecesFilter[i]
     ELSE Scoped(run.piecesFilter[i][1]) : i \in 1..Len(run.piecesFilter)}

OnFilteredCloud(run, piece) ==
    \E cloudPiece \in run.allCloudPieces :
        /\ cloudPiece.name = piece.name
        /\ cloudPiece.version = piece.version
        /\ run.piecesFilter # <<>> => cloudPiece.name \in Admitted(run)

=============================================================================
